---- MODULE Spec2Model ----
(***************************************************************************)
(* Model of the Agent Task Protocol Client of the Bindu web front end:     *)
(*   frontend/src/lib/utils/agentMessageHandler.ts  (sendAgentMessage)     *)
(*   frontend/src/lib/utils/paymentHandler.ts       (payment challenge)    *)
(*   the conversation page's consumer loop          (writeMessage)         *)
(*                                                                         *)
(* Strings that the code inspects (payment tokens, context ids) are        *)
(* sequences of character codes.  Task and message ids are tuples; a call  *)
(* of generateId() yields a tuple no other call yields.  The JSON-RPC      *)
(* request id and the Authorization / Content-Type headers take no part in *)
(* any decision of the code and are left out of the recorded requests.     *)
(***************************************************************************)
EXTENDS Integers, Sequences, FiniteSets, TLC

\* ------------------------------------------------------------------ bounds
\* invocations of sendAgentMessage explored one after the other
MaxInvocations == 2
\* answers of a remote agent that is up which settle nothing: a tasks/get that is
\* not ok or finds the task still submitted / working, a payment still pending
MaxDelays == 2
\* writeMessage calls made while another call is in progress
MaxIgnoredCalls == 1

\* ------------------------------------------------------- program constants
\* agentMessageHandler.ts: const maxAttempts = 300
maxAttempts == 300
\* paymentHandler.ts: const maxAttempts = 60
paymentMaxAttempts == 60

\* ------------------------------------------------------------------ values
\* an id that is undefined / null
NoId == <<>>
NoState == "none"
\* paymentToken === null
Null == <<-1>>
\* a header that is not present
Absent == <<-2>>

\* tokens a payment session hands out, as character codes: " t", "\u00E9", " "
Tokens == { <<32, 116>>, <<233>>, <<32>> }
\* payment_token of a payment-status answer; <<>> is a missing / empty field
StatusTokens == Tokens \cup { <<>> }

TaskStates == {"submitted", "working", "input-required", "completed", "failed", "canceled"}

\* an id the remote agent answers with when it does not echo the message's id
ServerTaskId == <<77>>
\* a task the user picked with "reply to"
ReplyTaskId == <<88>>
\* an earlier task handed in by a caller other than the page
OldTaskId == <<99>>

\* page.params.id: a 24 character ObjectId
Ctx24 == [i \in 1..24 |-> 97]
Ctx32 == [i \in 1..32 |-> 98]
Ctx5 == [i \in 1..5 |-> 99]

\* ------------------------------------------------------------ string helpers
\* String.prototype.trim: white space and line terminators
IsWhiteSpace(c) == c \in {9, 10, 11, 12, 13, 32, 160}

RECURSIVE TrimStart(_)
TrimStart(s) ==
    IF s # <<>> /\ IsWhiteSpace(Head(s)) THEN TrimStart(Tail(s)) ELSE s

RECURSIVE TrimEnd(_)
TrimEnd(s) ==
    IF s # <<>> /\ IsWhiteSpace(s[Len(s)]) THEN TrimEnd(SubSeq(s, 1, Len(s) - 1)) ELSE s

Trim(s) == TrimEnd(TrimStart(s))

\* /^[\x00-\x7F]*$/.test(s)
IsAscii(s) == \A i \in 1..Len(s) : s[i] >= 0 /\ s[i] <= 127

\* String.prototype.padEnd(n, '0')
PadEnd(s, n) == IF Len(s) >= n THEN s ELSE s \o [i \in 1..(n - Len(s)) |-> 48]

\* crypto.randomUUID(): call number k of invocation inv
GenerateId(inv, k) == <<inv, k>>
\* the same, as the 36 character string used for a context id
GenerateIdString(inv, k) == [i \in 1..36 |-> IF i = 1 THEN inv ELSE IF i = 2 THEN k ELSE 45]

\* ------------------------------------------------------------ paymentHandler
\* JavaScript truthiness of a string-or-null
Truthy(s) == s # Null /\ s # <<>>

\* mutant: the header is the token as stored, without cleanToken's trim()
GetPaymentHeadersUntrimmed(tok) ==
    IF ~Truthy(tok) THEN Absent
    ELSE IF ~IsAscii(Trim(tok)) THEN Absent
    ELSE tok

\* getPaymentHeaders(): the X-PAYMENT header it returns (Absent: {})
GetPaymentHeaders(tok) ==
    IF ~Truthy(tok) THEN Absent
    ELSE IF ~IsAscii(Trim(tok)) THEN Absent
    ELSE Trim(tok)

\* getPaymentHeaders(): paymentToken after the call
TokenAfterGetPaymentHeaders(tok) ==
    IF ~Truthy(tok) THEN tok
    ELSE IF ~IsAscii(Trim(tok)) THEN Null
    ELSE tok

\* hasPaymentToken()
HasPaymentToken(tok) == tok # Null /\ Len(tok) > 0

\* ------------------------------------------------------ agentMessageHandler
\* the text of a part, as a string of character codes
TextA == <<65>>
TextB == <<66>>
TextHi == <<104, 105>>
TextOk == <<111, 107>>
TextFinal == <<102, 105, 110, 97, 108>>

TextPart(t) == [kind |-> "text", text |-> t]

\* Array.prototype.join('\n')
RECURSIVE Join(_)
Join(parts) ==
    IF parts = <<>> THEN <<>>
    ELSE IF Len(parts) = 1 THEN parts[1]
    ELSE parts[1] \o <<10>> \o Join(Tail(parts))

\* the text parts one artifact contributes (artifact.parts, else artifact.text)
RECURSIVE PartTexts(_)
PartTexts(parts) ==
    IF parts = <<>> THEN <<>>
    ELSE (IF Head(parts).kind = "text" /\ Head(parts).text # <<>>
          THEN <<Head(parts).text>> ELSE <<>>) \o PartTexts(Tail(parts))

ArtifactTexts(artifact) ==
    IF artifact.hasParts THEN PartTexts(artifact.parts)
    ELSE IF artifact.text # <<>> THEN <<artifact.text>>
    ELSE <<>>

RECURSIVE AllArtifactTexts(_)
AllArtifactTexts(artifacts) ==
    IF artifacts = <<>> THEN <<>>
    ELSE ArtifactTexts(Head(artifacts)) \o AllArtifactTexts(Tail(artifacts))

\* mutant: the history fallback joins every text part of the message it finds
RECURSIVE HistoryTextJoined(_, _)
HistoryTextJoined(history, i) ==
    IF i < 1 THEN <<>>
    ELSE IF history[i].role \in {"assistant", "agent"} /\ PartTexts(history[i].parts) # <<>>
         THEN Join(PartTexts(history[i].parts))
         ELSE HistoryTextJoined(history, i - 1)

\* the history scan from the most recent entry backward
RECURSIVE HistoryText(_, _)
HistoryText(history, i) ==
    IF i < 1 THEN <<>>
    ELSE IF history[i].role \in {"assistant", "agent"} /\ PartTexts(history[i].parts) # <<>>
         THEN PartTexts(history[i].parts)[1]
         ELSE HistoryText(history, i - 1)

extractTextFromTask(task) ==
    IF AllArtifactTexts(task.artifacts) # <<>> THEN Join(AllArtifactTexts(task.artifacts))
    ELSE HistoryText(task.history, Len(task.history))

\* mutant: the open task is reused before the reply target is looked at
ResolveTaskIdReuseFirst(replyTo, cur, state, fresh) ==
    IF state \in {"input-required", "auth-required"} /\ cur # NoId THEN cur
    ELSE fresh

\* mutant: the previous task is referenced also when its id is reused
ResolveReferenceAlways(replyTo, cur, state) ==
    IF replyTo # NoId THEN <<replyTo>>
    ELSE IF cur # NoId THEN <<cur>>
    ELSE <<>>

\* mutant: only an explicit reply is referenced
ResolveReferenceReplyOnly(replyTo, cur, state) ==
    IF replyTo # NoId THEN <<replyTo>> ELSE <<>>

\* Task identity: the taskId of the outgoing message
ResolveTaskId(replyTo, cur, state, fresh) ==
    IF replyTo # NoId THEN fresh
    ELSE IF state \in {"input-required", "auth-required"} /\ cur # NoId THEN cur
    ELSE fresh

\* Task identity: the referenceTaskIds of the outgoing message
ResolveReferenceTaskIds(replyTo, cur, state) ==
    IF replyTo # NoId THEN <<replyTo>>
    ELSE IF state \in {"input-required", "auth-required"} /\ cur # NoId THEN <<>>
    ELSE IF cur # NoId THEN <<cur>>
    ELSE <<>>

\* stores/chat.ts, sendMessage lines 235-253: the chat store resolves the task
\* identity by the same rules.  isNonTerminalState is imported from lib/types/agent.
isNonTerminalState(state) == state \in {"input-required", "auth-required"}

ChatTaskId(replyTo, cur, state, fresh) ==
    IF replyTo # NoId THEN fresh
    ELSE IF state # NoState /\ isNonTerminalState(state) /\ cur # NoId THEN cur
    ELSE fresh

ChatReferenceTaskIds(replyTo, cur, state) ==
    IF replyTo # NoId THEN <<replyTo>>
    ELSE IF state # NoState /\ isNonTerminalState(state) /\ cur # NoId THEN <<>>
    ELSE IF cur # NoId THEN <<cur>>
    ELSE <<>>

\* mutant: every context id shorter than 32 characters is padded
WireContextIdPadShorter(ctx, fresh) ==
    IF ctx # <<>> THEN PadEnd(ctx, 32) ELSE fresh

\* the context id put on the wire; <<>> is an undefined or empty contextId
WireContextId(ctx, fresh) ==
    IF ctx # <<>> THEN (IF Len(ctx) = 24 THEN PadEnd(ctx, 32) ELSE ctx) ELSE fresh

\* ------------------------------------------------------------------ updates
StatusUpdate(s, m) == [type |-> "status", status |-> s, message |-> m]
\* an error message is the sequence of the fragments the code concatenates
Started == StatusUpdate("started", <<>>)
Finished == StatusUpdate("finished", <<>>)
ErrorUpdate(m) == StatusUpdate("error", m)
\* mutant: the update leaves the referenceTaskIds out
TaskMetadataNoReferences(t, c, st, refs) ==
    [type |-> "taskMetadata", taskId |-> t, contextId |-> c, status |-> st,
     referenceTaskIds |-> <<>>]
TaskMetadata(t, c, st, refs) ==
    [type |-> "taskMetadata", taskId |-> t, contextId |-> c, status |-> st,
     referenceTaskIds |-> refs]
FinalAnswer(t) == [type |-> "finalAnswer", text |-> t, interrupted |-> FALSE]

\* --------------------------------------------------------- the remote agent
NoArtifacts == <<>>
ArtifactsAB ==
    << [hasParts |-> TRUE, parts |-> <<TextPart(TextA)>>, text |-> <<>>],
       [hasParts |-> TRUE, parts |-> <<TextPart(TextB)>>, text |-> <<>>] >>
HistoryChat ==
    << [role |-> "user", parts |-> <<TextPart(TextHi)>>],
       [role |-> "assistant", parts |-> <<TextPart(TextOk)>>],
       [role |-> "assistant", parts |-> <<TextPart(TextFinal)>>] >>

Task(id, st, e, arts, hist) ==
    [id |-> id, state |-> st, error |-> e, artifacts |-> arts, history |-> hist]
\* tasks of every shape the extractor tells apart: parts of kind text (also with
\* an empty text) and of another kind, artifacts with a parts list (also an empty
\* one) or with a text field of their own, history entries of the three roles
FilePart == [kind |-> "file", text |-> TextHi]
ExtractArtifacts ==
    { [hasParts |-> TRUE, parts |-> ps, text |-> <<>>] :
        ps \in { <<>>, <<TextPart(TextA)>>, <<TextPart(TextA), TextPart(TextB)>>,
                 <<TextPart(<<>>), TextPart(TextB)>>, <<FilePart>> } }
    \cup { [hasParts |-> FALSE, parts |-> <<>>, text |-> t] : t \in {<<>>, TextOk} }
ExtractMessages ==
    { [role |-> r, parts |-> ps] :
        r \in {"user", "assistant", "agent"},
        ps \in { <<TextPart(TextFinal)>>, <<TextPart(<<>>)>>, <<FilePart, TextPart(TextHi)>>,
                 <<TextPart(TextOk), TextPart(TextFinal)>> } }
UpTo2(S) == {<<>>} \cup { <<x>> : x \in S } \cup { <<x, y>> : x \in S, y \in S }
ExtractTasks ==
    { Task(ServerTaskId, "completed", "", a, h) :
        a \in UpTo2(ExtractArtifacts), h \in UpTo2(ExtractMessages) }

\* a missing result field
NoTask == Task(NoId, NoState, "", NoArtifacts, <<>>)

\* response bodies: not JSON, or an envelope {error?, result?}
Garbage == [parsable |-> FALSE, error |-> "none", result |-> NoTask]
ErrorBody(m) == [parsable |-> TRUE, error |-> m, result |-> NoTask]
ResultBody(t) == [parsable |-> TRUE, error |-> "none", result |-> t]

\* the task snapshots a tasks/get may answer
PollTasks ==
    { Task(ServerTaskId, st, "", NoArtifacts, HistoryChat) : st \in {"submitted", "working", "canceled"} }
    \cup { Task(ServerTaskId, "failed", e, NoArtifacts, HistoryChat) : e \in {"", "boom"} }
    \cup { Task(ServerTaskId, st, "", a, HistoryChat) :
             st \in {"completed", "input-required"}, a \in {NoArtifacts, ArtifactsAB} }

\* the bodies a message/send may answer for a message with task id t
SendBodies(t) ==
    {Garbage, ErrorBody(""), ErrorBody("remote error"), ResultBody(NoTask)}
    \cup { ResultBody(Task(id, st, "", NoArtifacts, <<>>)) :
             id \in {t, ServerTaskId}, st \in {"submitted", "input-required", "completed"} }

PollBodies ==
    {Garbage, ErrorBody(""), ErrorBody("remote error"), ResultBody(NoTask)}
    \cup { ResultBody(t) : t \in PollTasks }

\* HTTP statuses answered: success, payment required, another failure
HttpStatuses == {200, 402, 500}
Ok(status) == status >= 200 /\ status <= 299

\* payment-status answers {status, payment_token?}
PaymentStatuses ==
    { [status |-> st, payment_token |-> tk] :
        st \in {"pending", "completed", "failed"}, tk \in StatusTokens }

\* the n-th payment-status request and what came back: "thrown" (the fetch or the
\* JSON parse threw), "not ok", or the status and payment_token of the body
PayAnswer(n, st, tk) == [n |-> n, status |-> st, payment_token |-> tk]
NoPayStatus == PayAnswer(0, "none", <<>>)

\* a tasks/get: the X-PAYMENT header it went out with, the HTTP status answered (0
\* while there is no answer) and the error field of the body answered
PollRequest(h) == [xPayment |-> h, status |-> 0, error |-> "none"]
PollAnswered(p, status, e) == [xPayment |-> p.xPayment, status |-> status, error |-> e]
NoPoll == PollRequest(Absent)
\* tasks/get answers that are not ok: a payment challenge, a plain failure, a
\* failure whose body is a JSON-RPC error envelope
NotOkAnswers == { <<402, "none">>, <<500, "none">>, <<500, "remote error">> }

\* ------------------------------------------------------------------- state
VARIABLES
    paymentToken,      \* paymentHandler.ts: let paymentToken
    heldToken,         \* paymentToken as the current invocation found it
    paymentSession,    \* payment_token of the session that completed, else Null
    payStatus,         \* the payment-status requests issued and the last answer
    observed,          \* the task states the tasks/get answers reported
    remote,            \* the remote agent: "up"; "stuck": every tasks/get fails;
                       \* "busy": every tasks/get finds the task working;
                       \* "unpaid": the payment session never leaves pending
    invocations,       \* calls of sendAgentMessage so far
    pc,                \* where the generator of the current invocation stands
    args,              \* its arguments
    agentMessage,      \* the message it built
    headers,           \* the X-PAYMENT entry of its headers
    attempt,           \* its poll loop counter
    attempts,          \* handlePaymentRequired's loop counter
    submittedTaskId,   \* task.id of the send answer
    currentTask,       \* the snapshot of the last successful poll
    updates,           \* the updates yielded so far
    sends,             \* the message/send requests issued
    polls,             \* the number of tasks/get requests issued
    payCalls,          \* the number of handlePaymentRequired calls
    aborted,           \* abortSignal.aborted
    err,               \* the error raised, <<>> when none
    delays,            \* answers so far that settled nothing (remote agent up)
    lastPoll,          \* the last tasks/get: its X-PAYMENT header and its answer
    isWritingMessage,  \* conversation page: let isWritingMessage
    ignoredCalls,      \* writeMessage calls the page's guard turned away
    currentTaskId,     \* conversation page: let currentTaskId
    currentTaskState,  \* conversation page: let currentTaskState
    messages,          \* chat store: messages
    contexts,          \* chat store: contexts
    contextId,         \* chat store: contextId
    storeTaskId,       \* chat store: currentTaskId
    storeTaskState,    \* chat store: currentTaskState
    switchCall,        \* chat store: the switchContext call, where it stands
    storeError,        \* chat store: error
    isThinking,        \* chat store: isThinking
    pollingInterval,   \* chat store: let pollingInterval (<<the timer's number>>, or Null)
    timers,            \* the closures of the setInterval calls: taskId, lastHistoryLength
    inFlight,          \* the getTask requests of timer callbacks that wait for an answer
    sendCall,          \* chat store: the sendMessage call, where it stands
    agent,             \* the tasks as the remote agent holds them
    pollStopped        \* the terminal state on which a poll stopped the polling

\* the chat store (stores/chat.ts)
pollVars == <<isThinking, pollingInterval, timers, inFlight, sendCall, agent, pollStopped>>
storeVars ==
    <<messages, contexts, contextId, storeTaskId, storeTaskState, switchCall, storeError,
      pollVars>>

\* the payment handler, the send/poll engine and the conversation page
engineVars ==
    << paymentToken, heldToken, paymentSession, payStatus, observed, remote, invocations,
       pc, args, agentMessage, headers, attempt, attempts, submittedTaskId, currentTask,
       updates, sends, polls, payCalls, aborted, err, delays, lastPoll, isWritingMessage,
       ignoredCalls, currentTaskId, currentTaskState >>

vars == <<engineVars, storeVars>>

NoArgs == [contextId |-> <<>>, currentTaskId |-> NoId, taskState |-> NoState,
           replyToTaskId |-> NoId]
NoMessage == [messageId |-> NoId, contextId |-> <<>>, taskId |-> NoId,
              referenceTaskIds |-> <<>>]

Ended == {"done", "thrown", "closed"}
Yields == {"yStarted", "yMeta", "yPollMeta", "yFinal", "yFinished", "yError"}

\* what earlier invocations can leave behind: a payment token (kept on
\* input-required, and whenever an invocation ends before it clears it) and the
\* task the page tracked last
LeftTokens == {Null, <<32, 116>>}
LeftTasks ==
    { <<NoId, NoState>>, <<OldTaskId, "input-required">>, <<OldTaskId, "completed">> }

\* the generator's own state before sendAgentMessage is called
Idle ==
    /\ pc = "idle"
    /\ args = NoArgs
    /\ agentMessage = NoMessage
    /\ headers = Absent
    /\ attempt = 0
    /\ attempts = 0
    /\ submittedTaskId = NoId
    /\ currentTask = NoTask
    /\ updates = <<>>
    /\ sends = <<>>
    /\ polls = 0
    /\ payCalls = 0
    /\ aborted = FALSE
    /\ err = <<>>
    /\ heldToken = Null
    /\ paymentSession = Null
    /\ payStatus = NoPayStatus
    /\ observed = <<>>
    /\ lastPoll = NoPoll

\* the chat store as the module leaves it when loaded (chat.ts lines 15-25)
NoSend == [pc |-> "idle", n |-> 0, taskId |-> NoId, referenceTaskIds |-> <<>>,
           currentContext |-> Null, useContextId |-> Null]
NoSwitch == [pc |-> "idle", ctxId |-> Null, todo |-> <<>>, loaded |-> <<>>, skipped |-> <<>>]
StoreInit ==
    /\ messages = <<>>
    /\ contexts = <<>>
    /\ contextId = Null
    /\ storeTaskId = Null
    /\ storeTaskState = NoState
    /\ switchCall = NoSwitch
    /\ storeError = Null
    /\ isThinking = FALSE
    /\ pollingInterval = Null
    /\ timers = <<>>
    /\ inFlight = {}
    /\ sendCall = NoSend
    /\ agent = <<>>
    /\ pollStopped = NoState

\* One invocation is explored in full, started in a state earlier invocations
\* left; the two outage scenarios start from a fresh page.
Init ==
    /\ Idle
    /\ invocations = MaxInvocations - 1
    /\ isWritingMessage = FALSE
    /\ ignoredCalls = 0
    /\ StoreInit
    /\ delays = 0
    /\ remote \in {"up", "stuck", "busy", "unpaid"}
    /\ paymentToken \in LeftTokens
    /\ \E t \in LeftTasks : currentTaskId = t[1] /\ currentTaskState = t[2]
    /\ remote # "up" => /\ paymentToken = Null
                        /\ currentTaskId = NoId

\* ------------------------------------------------------------ sendAgentMessage
\* mutant: the error leaves the generator without passing the catch block
FailUncaught(m) ==
    /\ updates' = updates
    /\ err' = m
    /\ pc' = "thrown"

\* the catch block: yield Status{error, message}, then rethrow on the next resume
Fail(m) ==
    /\ updates' = Append(updates, ErrorUpdate(m))
    /\ err' = m
    /\ pc' = "yError"

\* lines 179-225: the message of invocation number inv with arguments a
BuildMessage(a, inv) ==
    [messageId |-> GenerateId(inv, 1),
     contextId |-> WireContextId(a.contextId, GenerateIdString(inv, 3)),
     taskId |-> ResolveTaskId(a.replyToTaskId, a.currentTaskId, a.taskState,
                              GenerateId(inv, 2)),
     referenceTaskIds |-> ResolveReferenceTaskIds(a.replyToTaskId, a.currentTaskId,
                                                  a.taskState)]

\* a message/send request as it goes on the wire
SendRequest(m, h) == [message |-> m, xPayment |-> h]

\* mutant: the message/send is fetched before Status{started} is yielded
InvokeSendFirst(a, ab) ==
    /\ invocations < MaxInvocations
    /\ invocations' = invocations + 1
    /\ args' = a
    /\ headers' = GetPaymentHeaders(paymentToken)
    /\ paymentToken' = TokenAfterGetPaymentHeaders(paymentToken)
    /\ agentMessage' = BuildMessage(a, invocations + 1)
    /\ updates' = <<>>
    /\ pc' = "send"
    /\ aborted' = ab
    /\ attempt' = 0
    /\ attempts' = 0
    /\ submittedTaskId' = NoId
    /\ currentTask' = NoTask
    /\ sends' = <<SendRequest(BuildMessage(a, invocations + 1),
                             GetPaymentHeaders(paymentToken))>>
    /\ polls' = 0
    /\ payCalls' = 0
    /\ err' = <<>>
    /\ heldToken' = paymentToken
    /\ paymentSession' = Null
    /\ payStatus' = NoPayStatus
    /\ observed' = <<>>
    /\ lastPoll' = NoPoll
    /\ UNCHANGED <<remote, storeVars, delays, currentTaskId, currentTaskState>>

\* mutant: the headers are built without getPaymentHeaders() (no line 172)
InvokeNoPaymentHeaders(a, ab) ==
    /\ invocations < MaxInvocations
    /\ invocations' = invocations + 1
    /\ args' = a
    /\ headers' = Absent
    /\ paymentToken' = paymentToken
    /\ agentMessage' = BuildMessage(a, invocations + 1)
    /\ updates' = <<Started>>
    /\ pc' = "yStarted"
    /\ aborted' = ab
    /\ attempt' = 0
    /\ attempts' = 0
    /\ submittedTaskId' = NoId
    /\ currentTask' = NoTask
    /\ sends' = <<>>
    /\ polls' = 0
    /\ payCalls' = 0
    /\ err' = <<>>
    /\ heldToken' = paymentToken
    /\ paymentSession' = Null
    /\ payStatus' = NoPayStatus
    /\ observed' = <<>>
    /\ lastPoll' = NoPoll
    /\ UNCHANGED <<remote, storeVars, delays, currentTaskId, currentTaskState>>

\* sendAgentMessage(...) and the first next(): lines 169-228, up to the yield of
\* Status{started}.  ab: the abortSignal handed in is already aborted.
Invoke(a, ab) ==
    /\ invocations < MaxInvocations
    /\ invocations' = invocations + 1
    /\ args' = a
    /\ headers' = GetPaymentHeaders(paymentToken)
    /\ paymentToken' = TokenAfterGetPaymentHeaders(paymentToken)
    /\ agentMessage' = BuildMessage(a, invocations + 1)
    /\ updates' = <<Started>>
    /\ pc' = "yStarted"
    /\ aborted' = ab
    /\ attempt' = 0
    /\ attempts' = 0
    /\ submittedTaskId' = NoId
    /\ currentTask' = NoTask
    /\ sends' = <<>>
    /\ polls' = 0
    /\ payCalls' = 0
    /\ err' = <<>>
    /\ heldToken' = paymentToken
    /\ paymentSession' = Null
    /\ payStatus' = NoPayStatus
    /\ observed' = <<>>
    /\ lastPoll' = NoPoll
    /\ UNCHANGED <<remote, storeVars, delays, currentTaskId, currentTaskState>>

\* mutant: writeMessage without its guard against concurrent calls
WriteMessageNoGuard(reply, ab) ==
    /\ isWritingMessage' = TRUE
    /\ Invoke([contextId |-> Ctx24, currentTaskId |-> currentTaskId,
               taskState |-> currentTaskState, replyToTaskId |-> reply], ab)
    /\ UNCHANGED ignoredCalls

\* the conversation page's writeMessage (lines 118-255): the guard is taken, then
\* sendAgentMessage gets the tracked task and the reply target the user picked
\* (cleared right after the call)
WriteMessage(reply, ab) ==
    /\ ~isWritingMessage
    /\ isWritingMessage' = TRUE
    /\ Invoke([contextId |-> Ctx24, currentTaskId |-> currentTaskId,
               taskState |-> currentTaskState, replyToTaskId |-> reply], ab)
    /\ UNCHANGED ignoredCalls

\* writeMessage called while a call is in progress (lines 128-131): it returns
WriteMessageIgnored ==
    /\ isWritingMessage
    /\ ignoredCalls < MaxIgnoredCalls
    /\ ignoredCalls' = ignoredCalls + 1
    /\ UNCHANGED <<paymentToken, heldToken, paymentSession, payStatus, observed, remote, storeVars,
                   invocations, pc, args, agentMessage, headers, attempt, attempts,
                   submittedTaskId, currentTask, updates, sends, polls, payCalls,
                   aborted, err, delays, lastPoll, isWritingMessage, currentTaskId,
                   currentTaskState>>

\* mutant: the loop condition lets one more iteration through (attempt <= maxAttempts)
LoopHeadOneMore(k) ==
    /\ attempt' = k
    /\ IF k > maxAttempts THEN Fail(<<"Task polling timeout">>) /\ polls' = polls
       ELSE IF aborted THEN Fail(<<"Request aborted">>) /\ polls' = polls
       ELSE IF k > 0 THEN pc' = "wait" /\ UNCHANGED <<updates, err, polls>>
       ELSE pc' = "poll" /\ polls' = polls + 1 /\ UNCHANGED <<updates, err>>

\* the head of poll iteration k: loop condition, abort check, wait or fetch
LoopHead(k) ==
    /\ attempt' = k
    /\ IF k >= maxAttempts THEN Fail(<<"Task polling timeout">>) /\ polls' = polls
       ELSE IF aborted THEN Fail(<<"Request aborted">>) /\ polls' = polls
       ELSE IF k > 0 THEN pc' = "wait" /\ UNCHANGED <<updates, err, polls>>
       ELSE pc' = "poll" /\ polls' = polls + 1 /\ UNCHANGED <<updates, err>>

\* mutant: the task of the send answer is taken without yielding its TaskMetadata
HandleResultNoMetadata(body) ==
    IF ~body.parsable
    THEN /\ \E m \in {"Failed to parse response", "body stream already read"} : Fail(<<m>>)
         /\ UNCHANGED submittedTaskId
    ELSE IF body.error # "none"
    THEN /\ Fail(<<IF body.error = "" THEN "Agent error" ELSE body.error>>)
         /\ UNCHANGED submittedTaskId
    ELSE IF body.result = NoTask
    THEN /\ Fail(<<"Invalid response: missing result">>)
         /\ UNCHANGED submittedTaskId
    ELSE /\ submittedTaskId' = body.result.id
         /\ pc' = "yMeta"
         /\ UNCHANGED <<updates, err>>

\* lines 299-329: the body of an accepted message/send answer
HandleResult(body) ==
    IF ~body.parsable
    THEN /\ \E m \in {"Failed to parse response", "body stream already read"} : Fail(<<m>>)
         /\ UNCHANGED submittedTaskId
    ELSE IF body.error # "none"
    THEN /\ Fail(<<IF body.error = "" THEN "Agent error" ELSE body.error>>)
         /\ UNCHANGED submittedTaskId
    ELSE IF body.result = NoTask
    THEN /\ Fail(<<"Invalid response: missing result">>)
         /\ UNCHANGED submittedTaskId
    ELSE /\ submittedTaskId' = body.result.id
         /\ updates' = Append(updates,
                TaskMetadata(body.result.id, agentMessage.contextId, body.result.state,
                             agentMessage.referenceTaskIds))
         /\ pc' = "yMeta"
         /\ UNCHANGED err

\* the page's consumer loop handling the update it was handed (lines 364-379)
Track(u) ==
    IF u.type = "taskMetadata"
    THEN currentTaskId' = u.taskId /\ currentTaskState' = u.status
    ELSE UNCHANGED <<currentTaskId, currentTaskState>>

\* mutant: input-required ends the invocation without a FinalAnswer
AfterPollMetadataNoAnswer ==
    IF currentTask.state = "completed"
    THEN /\ updates' = Append(updates, FinalAnswer(extractTextFromTask(currentTask)))
         /\ pc' = "yFinal"
         /\ UNCHANGED <<err, attempt, polls, paymentToken>>
    ELSE IF currentTask.state = "input-required"
    THEN /\ updates' = Append(updates, Finished)
         /\ pc' = "yFinished"
         /\ UNCHANGED <<err, attempt, polls, paymentToken>>
    ELSE IF currentTask.state = "failed"
    THEN /\ paymentToken' = Null
         /\ Fail(<<"Task failed: ",
                   IF currentTask.error = "" THEN "Unknown error" ELSE currentTask.error>>)
         /\ UNCHANGED <<attempt, polls>>
    ELSE IF currentTask.state = "canceled"
    THEN /\ paymentToken' = Null
         /\ Fail(<<"Task was canceled">>)
         /\ UNCHANGED <<attempt, polls>>
    ELSE /\ LoopHead(attempt + 1)
         /\ UNCHANGED paymentToken

\* mutant: failed and canceled raise their error without clearing the token
AfterPollMetadataKeepToken ==
    IF currentTask.state \in {"completed", "input-required"}
    THEN /\ updates' = Append(updates, FinalAnswer(extractTextFromTask(currentTask)))
         /\ pc' = "yFinal"
         /\ UNCHANGED <<err, attempt, polls, paymentToken>>
    ELSE IF currentTask.state = "failed"
    THEN /\ Fail(<<"Task failed: ",
                   IF currentTask.error = "" THEN "Unknown error" ELSE currentTask.error>>)
         /\ UNCHANGED <<attempt, polls, paymentToken>>
    ELSE IF currentTask.state = "canceled"
    THEN /\ Fail(<<"Task was canceled">>)
         /\ UNCHANGED <<attempt, polls, paymentToken>>
    ELSE /\ LoopHead(attempt + 1)
         /\ UNCHANGED paymentToken

\* mutant: a failed or canceled task yields what text it has as a FinalAnswer
\* before the error is raised
AfterPollMetadataAnswerBeforeRaise ==
    IF currentTask.state \in {"completed", "input-required"}
    THEN /\ updates' = Append(updates, FinalAnswer(extractTextFromTask(currentTask)))
         /\ pc' = "yFinal"
         /\ UNCHANGED <<err, attempt, polls, paymentToken>>
    ELSE IF currentTask.state \in {"failed", "canceled"}
    THEN /\ paymentToken' = Null
         /\ updates' = updates \o <<FinalAnswer(extractTextFromTask(currentTask)),
                                    ErrorUpdate(<<"Task was canceled">>)>>
         /\ err' = <<"Task was canceled">>
         /\ pc' = "yError"
         /\ UNCHANGED <<attempt, polls>>
    ELSE /\ LoopHead(attempt + 1)
         /\ UNCHANGED paymentToken

\* lines 380-412: the generator resumed after the TaskMetadata of a poll
AfterPollMetadata ==
    IF currentTask.state \in {"completed", "input-required"}
    THEN /\ updates' = Append(updates, FinalAnswer(extractTextFromTask(currentTask)))
         /\ pc' = "yFinal"
         /\ UNCHANGED <<err, attempt, polls, paymentToken>>
    ELSE IF currentTask.state = "failed"
    THEN /\ paymentToken' = Null
         /\ Fail(<<"Task failed: ",
                   IF currentTask.error = "" THEN "Unknown error" ELSE currentTask.error>>)
         /\ UNCHANGED <<attempt, polls>>
    ELSE IF currentTask.state = "canceled"
    THEN /\ paymentToken' = Null
         /\ Fail(<<"Task was canceled">>)
         /\ UNCHANGED <<attempt, polls>>
    ELSE /\ LoopHead(attempt + 1)
         /\ UNCHANGED paymentToken

\* mutant: the generator returns without clearing the token (no lines 400-402)
AfterFinishedKeepToken ==
    /\ paymentToken' = paymentToken
    /\ pc' = "done"

\* mutant: the token is cleared whatever the final state was
AfterFinishedClearAlways ==
    /\ paymentToken' = Null
    /\ pc' = "done"

\* lines 398-405: the generator resumed after Status{finished}
AfterFinished ==
    /\ paymentToken' = (IF currentTask.state = "completed" THEN Null ELSE paymentToken)
    /\ pc' = "done"

\* the consumer handles the update it holds and asks for the next one
ConsumerNext ==
    /\ pc \in Yields
    /\ Track(updates[Len(updates)])
    /\ CASE pc = "yStarted" ->
              \* line 243: fetch; an aborted signal rejects it before any request
              /\ IF aborted
                 THEN Fail(<<"The operation was aborted">>) /\ UNCHANGED sends
                 ELSE /\ sends' = Append(sends, SendRequest(agentMessage, headers))
                      /\ pc' = "send"
                      /\ UNCHANGED <<updates, err>>
              /\ UNCHANGED <<attempt, polls, paymentToken>>
         [] pc = "yMeta" ->
              /\ LoopHead(0)
              /\ UNCHANGED <<sends, paymentToken>>
         [] pc = "yPollMeta" ->
              /\ AfterPollMetadata
              /\ UNCHANGED sends
         [] pc = "yFinal" ->
              /\ updates' = Append(updates, Finished)
              /\ pc' = "yFinished"
              /\ UNCHANGED <<err, attempt, polls, sends, paymentToken>>
         [] pc = "yFinished" ->
              /\ AfterFinished
              /\ UNCHANGED <<updates, err, attempt, polls, sends>>
         [] pc = "yError" ->
              /\ pc' = "thrown"
              /\ UNCHANGED <<updates, err, attempt, polls, sends, paymentToken>>
    /\ lastPoll' = (IF pc' = "poll" THEN PollRequest(headers) ELSE lastPoll)
    \* page lines 399-405: the loop is left, the finally block resets the guard
    /\ isWritingMessage' = (IF pc' \in Ended THEN FALSE ELSE isWritingMessage)
    /\ UNCHANGED <<heldToken, paymentSession, payStatus, observed, remote, storeVars, ignoredCalls,
                   invocations, args, agentMessage, headers, attempts,
                   submittedTaskId, currentTask, payCalls, aborted,
                   delays>>

\* the consumer leaves its loop at the update it holds (page lines 284-287:
\* abort() and return), which closes the generator at its yield; the finally
\* block of writeMessage resets the guard
ConsumerReturn ==
    /\ pc \in Yields
    /\ pc' = "closed"
    /\ aborted' = TRUE
    /\ isWritingMessage' = FALSE
    /\ UNCHANGED <<paymentToken, heldToken, paymentSession, payStatus, observed, remote, storeVars, ignoredCalls, invocations, args, agentMessage, headers,
                   attempt, attempts, submittedTaskId, currentTask, updates, sends,
                   polls, lastPoll, payCalls, err, delays,
                   currentTaskId, currentTaskState>>

\* the caller fires the abortSignal while the invocation runs
Abort ==
    /\ pc \notin {"idle"} \cup Ended
    /\ ~aborted
    /\ aborted' = TRUE
    /\ UNCHANGED <<paymentToken, heldToken, paymentSession, payStatus, observed, remote, storeVars, isWritingMessage, ignoredCalls, invocations, pc, args, agentMessage, headers,
                   attempt, attempts, submittedTaskId, currentTask, updates, sends,
                   polls, lastPoll, payCalls, err, delays,
                   currentTaskId, currentTaskState>>

\* ------------------------------------------------------- the answers arriving
StatusText(status) == IF status = 402 THEN "402" ELSE "500"

\* mutant: a refused payment is reported like any other refused request
PaymentNotCompletedAsRefusal ==
    /\ Fail(<<"Agent request failed: ", "402">>)
    /\ attempts' = 0

\* handlePaymentRequired returned false: line 292
PaymentNotCompleted ==
    /\ Fail(<<"Payment required but not completed">>)
    /\ attempts' = 0

\* the answer to the first message/send (lines 243-297)
SendResponse ==
    /\ pc = "send"
    /\ IF aborted
       THEN /\ Fail(<<"The operation was aborted">>)
            /\ UNCHANGED <<submittedTaskId, payCalls>>
       ELSE \/ /\ Fail(<<"Failed to fetch">>)
               /\ UNCHANGED <<submittedTaskId, payCalls>>
            \/ \E status \in HttpStatuses, body \in SendBodies(agentMessage.taskId) :
                 IF status = 402
                 THEN \* handlePaymentRequired starts the payment session
                      /\ remote \notin {"stuck", "busy"}
                      /\ payCalls' = payCalls + 1
                      /\ pc' = "paySession"
                      /\ UNCHANGED <<updates, err, submittedTaskId>>
                 ELSE IF ~Ok(status)
                 THEN /\ Fail(<<"Agent request failed: ", StatusText(status)>>)
                      /\ UNCHANGED <<submittedTaskId, payCalls>>
                 ELSE /\ HandleResult(body)
                      /\ UNCHANGED payCalls
    /\ UNCHANGED <<paymentToken, heldToken, paymentSession, payStatus, observed, remote, storeVars, isWritingMessage, ignoredCalls, invocations, args, agentMessage, headers,
                   attempt, attempts, currentTask, sends, polls, lastPoll, aborted,
                   delays, currentTaskId, currentTaskState>>

\* mutant: a session that cannot be started or shown drops the token held
PaySessionResponseClearsToken ==
    /\ pc = "paySession"
    /\ \E started \in BOOLEAN, popup \in BOOLEAN :
         IF started /\ popup
         THEN /\ pc' = "payWait"
              /\ attempts' = 0
              /\ UNCHANGED <<updates, err, paymentToken>>
         ELSE /\ PaymentNotCompleted
              /\ paymentToken' = Null
    /\ UNCHANGED <<heldToken, paymentSession, payStatus, observed, remote, storeVars, isWritingMessage, ignoredCalls, invocations, args,
                   agentMessage, headers, attempt, submittedTaskId, currentTask, sends, polls, lastPoll,
                   payCalls, aborted, delays, currentTaskId, currentTaskState>>

\* handlePaymentRequired, lines 22-46: the session start answer and the popup
PaySessionResponse ==
    /\ pc = "paySession"
    /\ \E started \in BOOLEAN, popup \in BOOLEAN :
         IF started /\ popup
         THEN /\ pc' = "payWait"
              /\ attempts' = 0
              /\ UNCHANGED <<updates, err>>
         ELSE \* fetch failed, not ok, not JSON (caught), or window.open gave null
              PaymentNotCompleted
    /\ UNCHANGED <<paymentToken, heldToken, paymentSession, payStatus, observed, remote, storeVars, isWritingMessage, ignoredCalls, invocations, args, agentMessage, headers,
                   attempt, submittedTaskId, currentTask, sends, polls, lastPoll, payCalls,
                   aborted, delays, currentTaskId,
                   currentTaskState>>

\* mutant: the retry is sent with the headers built for the first request
RetrySendOldHeaders(tok) ==
    /\ paymentSession' = tok
    /\ paymentToken' = TokenAfterGetPaymentHeaders(tok)
    /\ attempts' = 0
    /\ IF aborted
       THEN Fail(<<"The operation was aborted">>) /\ UNCHANGED sends
       ELSE /\ sends' = Append(sends, SendRequest(agentMessage, headers))
            /\ pc' = "retry"
            /\ UNCHANGED <<updates, err>>

\* lines 259-277: payment succeeded with token tok stored, the send is retried
\* with headers built anew
RetrySend(tok) ==
    /\ paymentSession' = tok
    /\ paymentToken' = TokenAfterGetPaymentHeaders(tok)
    /\ attempts' = 0
    /\ IF aborted
       THEN Fail(<<"The operation was aborted">>) /\ UNCHANGED sends
       ELSE /\ sends' = Append(sends, SendRequest(agentMessage, GetPaymentHeaders(tok)))
            /\ pc' = "retry"
            /\ UNCHANGED <<updates, err>>

\* mutant: the status loop without its attempts++ (line 54)
PaymentContinueNoCount ==
    /\ remote = "unpaid" \/ delays < MaxDelays
    /\ delays' = IF remote = "unpaid" THEN delays ELSE delays + 1
    /\ UNCHANGED <<attempts, pc, updates, err>>

\* mutant: the status loop runs while attempts <= maxAttempts
PaymentContinueOneMore ==
    /\ remote = "unpaid" \/ delays < MaxDelays
    /\ delays' = IF remote = "unpaid" THEN delays ELSE delays + 1
    /\ IF attempts + 1 < paymentMaxAttempts + 1
       THEN attempts' = attempts + 1 /\ UNCHANGED <<pc, updates, err>>
       ELSE PaymentNotCompleted

\* lines 52-83: the loop goes on after an answer that settles nothing
PaymentContinue ==
    /\ remote = "unpaid" \/ delays < MaxDelays
    /\ delays' = IF remote = "unpaid" THEN delays ELSE delays + 1
    /\ IF attempts + 1 < paymentMaxAttempts
       THEN attempts' = attempts + 1 /\ UNCHANGED <<pc, updates, err>>
       ELSE PaymentNotCompleted

\* mutant: handlePaymentRequired without its try/catch, the exception of the
\* payment-status call reaches sendAgentMessage as it is
PayStatusThrowsUncaught ==
    /\ remote # "unpaid"
    /\ payStatus' = PayAnswer(attempts + 1, "thrown", <<>>)
    /\ Fail(<<"Failed to fetch">>)
    /\ attempts' = 0
    /\ UNCHANGED <<paymentToken, paymentSession, sends, delays>>

\* lines 56-60 and 84-90: the payment-status fetch or its JSON parse throws; the
\* catch block returns false
PayStatusThrows ==
    /\ remote # "unpaid"
    /\ payStatus' = PayAnswer(attempts + 1, "thrown", <<>>)
    /\ PaymentNotCompleted
    /\ UNCHANGED <<paymentToken, paymentSession, sends, delays>>

\* handlePaymentRequired, lines 52-83: one iteration of the status loop (the 5 s
\* wait, the payment-status request and its answer)
PayStatusPoll ==
    /\ pc = "payWait"
    /\ \/ PayStatusThrows
       \/ \* not ok: continue
          /\ payStatus' = PayAnswer(attempts + 1, "not ok", <<>>)
          /\ PaymentContinue
          /\ UNCHANGED <<paymentToken, paymentSession, sends>>
       \/ \E data \in PaymentStatuses :
            /\ payStatus' = PayAnswer(attempts + 1, data.status, data.payment_token)
            /\ IF data.status = "completed" /\ Truthy(data.payment_token)
               THEN remote # "unpaid" /\ RetrySend(data.payment_token) /\ UNCHANGED delays
               ELSE IF data.status = "failed"
               THEN /\ remote # "unpaid"
                    /\ PaymentNotCompleted
                    /\ UNCHANGED <<paymentToken, paymentSession, sends, delays>>
               ELSE PaymentContinue /\ UNCHANGED <<paymentToken, paymentSession, sends>>
    /\ UNCHANGED <<heldToken, observed, remote, storeVars, isWritingMessage, ignoredCalls, invocations, args, agentMessage, headers, attempt,
                   submittedTaskId, currentTask, polls, lastPoll, payCalls, aborted,
                   currentTaskId, currentTaskState>>

\* mutant: a 402 answer to the retried send starts another payment challenge
RetryResponseRechallenge ==
    /\ pc = "retry"
    /\ IF aborted
       THEN /\ Fail(<<"The operation was aborted">>)
            /\ UNCHANGED <<submittedTaskId, headers, paymentToken, payCalls>>
       ELSE \/ /\ Fail(<<"Failed to fetch">>)
               /\ UNCHANGED <<submittedTaskId, headers, paymentToken, payCalls>>
            \/ \E status \in HttpStatuses, body \in SendBodies(agentMessage.taskId) :
                 IF status = 402
                 THEN /\ payCalls' = payCalls + 1
                      /\ pc' = "paySession"
                      /\ UNCHANGED <<updates, err, submittedTaskId, headers, paymentToken>>
                 ELSE IF ~Ok(status)
                 THEN /\ Fail(<<"Agent request failed after payment: ",
                                StatusText(status)>>)
                      /\ UNCHANGED <<submittedTaskId, headers, paymentToken, payCalls>>
                 ELSE /\ headers' = (IF GetPaymentHeaders(paymentToken) = Absent
                                     THEN <<>> ELSE GetPaymentHeaders(paymentToken))
                      /\ paymentToken' = TokenAfterGetPaymentHeaders(paymentToken)
                      /\ HandleResult(body)
                      /\ UNCHANGED payCalls
    /\ UNCHANGED <<heldToken, paymentSession, payStatus, observed, remote, storeVars, isWritingMessage, ignoredCalls, invocations, args, agentMessage, attempt, attempts,
                   currentTask, sends, polls, lastPoll, aborted, delays, currentTaskId, currentTaskState>>

\* the answer to the retried message/send (lines 279-290)
RetryResponse ==
    /\ pc = "retry"
    /\ IF aborted
       THEN /\ Fail(<<"The operation was aborted">>)
            /\ UNCHANGED <<submittedTaskId, headers, paymentToken>>
       ELSE \/ /\ Fail(<<"Failed to fetch">>)
               /\ UNCHANGED <<submittedTaskId, headers, paymentToken>>
            \/ \E status \in HttpStatuses, body \in SendBodies(agentMessage.taskId) :
                 IF ~Ok(status)
                 THEN /\ Fail(<<"Agent request failed after payment: ",
                                StatusText(status)>>)
                      /\ UNCHANGED <<submittedTaskId, headers, paymentToken>>
                 ELSE \* headers['X-PAYMENT'] = getPaymentHeaders()['X-PAYMENT'] || ''
                      /\ headers' = (IF GetPaymentHeaders(paymentToken) = Absent
                                     THEN <<>> ELSE GetPaymentHeaders(paymentToken))
                      /\ paymentToken' = TokenAfterGetPaymentHeaders(paymentToken)
                      /\ HandleResult(body)
    /\ UNCHANGED <<heldToken, paymentSession, payStatus, observed, remote, storeVars, isWritingMessage, ignoredCalls, invocations, args, agentMessage, attempt, attempts,
                   currentTask, sends, polls, lastPoll, payCalls, aborted, delays, currentTaskId, currentTaskState>>

\* mutant: the tasks/get is fetched without the abortSignal
PollTimerNoSignal ==
    /\ pc = "wait"
    /\ pc' = "poll"
    /\ polls' = polls + 1
    /\ lastPoll' = PollRequest(headers)
    /\ UNCHANGED <<updates, err>>
    /\ UNCHANGED <<paymentToken, heldToken, paymentSession, payStatus, observed, remote, storeVars, isWritingMessage, ignoredCalls, invocations, args,
                   agentMessage, headers, attempt, attempts, submittedTaskId, currentTask,
                   sends, payCalls, aborted, delays, currentTaskId, currentTaskState>>

\* line 342-356: the 1 s timer fires and the tasks/get is fetched
PollTimer ==
    /\ pc = "wait"
    /\ IF aborted
       THEN Fail(<<"The operation was aborted">>) /\ UNCHANGED <<polls, lastPoll>>
       ELSE /\ pc' = "poll"
            /\ polls' = polls + 1
            /\ lastPoll' = PollRequest(headers)
            /\ UNCHANGED <<updates, err>>
    /\ UNCHANGED <<paymentToken, heldToken, paymentSession, payStatus, observed, remote, storeVars, isWritingMessage, ignoredCalls, invocations, args, agentMessage, headers,
                   attempt, attempts, submittedTaskId, currentTask, sends, payCalls,
                   aborted, delays, currentTaskId,
                   currentTaskState>>

\* lines 358-378: a tasks/get answer that is not ok: continue
PollNotOk ==
    /\ pc = "poll"
    /\ ~aborted
    /\ remote = "stuck" \/ (remote # "busy" /\ delays < MaxDelays)
    /\ delays' = IF remote = "stuck" THEN delays ELSE delays + 1
    /\ \E a \in NotOkAnswers : lastPoll' = PollAnswered(lastPoll, a[1], a[2])
    /\ LoopHead(attempt + 1)
    /\ UNCHANGED <<paymentToken, heldToken, paymentSession, payStatus, observed, remote, storeVars, isWritingMessage, ignoredCalls, invocations, args, agentMessage, headers,
                   attempts, submittedTaskId, currentTask, sends, payCalls,
                   aborted, currentTaskId, currentTaskState>>

\* the answer of a remote agent that is busy
BusyBody == ResultBody(Task(ServerTaskId, "working", "", NoArtifacts, HistoryChat))

\* lines 362-378: the body of a tasks/get answered ok
PollAnswer(body) ==
    IF ~body.parsable
    THEN /\ Fail(<<"Unexpected token in JSON">>)
         /\ UNCHANGED <<currentTask, delays, observed>>
    ELSE IF body.error # "none"
    THEN /\ Fail(<<IF body.error = "" THEN "Task status error" ELSE body.error>>)
         /\ UNCHANGED <<currentTask, delays, observed>>
    ELSE IF body.result = NoTask
    THEN \* statusResult.result.status: a TypeError
         /\ Fail(<<"Cannot read properties of undefined">>)
         /\ UNCHANGED <<currentTask, delays, observed>>
    ELSE /\ body.result.state \in {"submitted", "working"}
            => remote = "busy" \/ delays < MaxDelays
         /\ delays' = IF body.result.state \in {"submitted", "working"} /\ remote # "busy"
                      THEN delays + 1 ELSE delays
         /\ currentTask' = body.result
         /\ observed' = Append(observed, body.result.state)
         /\ updates' = Append(updates,
                TaskMetadata(submittedTaskId, agentMessage.contextId, body.result.state,
                             agentMessage.referenceTaskIds))
         /\ pc' = "yPollMeta"
         /\ UNCHANGED err

\* lines 346-378: a tasks/get that is aborted, fails in transport, or is answered ok
PollResponse ==
    /\ pc = "poll"
    /\ IF aborted
       THEN /\ Fail(<<"The operation was aborted">>)
            /\ UNCHANGED <<currentTask, delays, observed, lastPoll>>
       ELSE /\ remote # "stuck"
            /\ \/ /\ remote # "busy"
                  /\ Fail(<<"Failed to fetch">>)
                  /\ UNCHANGED <<currentTask, delays, observed, lastPoll>>
               \/ \E body \in PollBodies :
                    /\ remote = "busy" => body = BusyBody
                    /\ lastPoll' = PollAnswered(lastPoll, 200, body.error)
                    /\ PollAnswer(body)
    /\ UNCHANGED <<paymentToken, heldToken, paymentSession, payStatus, remote, storeVars, isWritingMessage, ignoredCalls, invocations, args, agentMessage, headers,
                   attempt, attempts, submittedTaskId, sends, polls, payCalls,
                   aborted, currentTaskId, currentTaskState>>

Next ==
    \/ \E reply \in {NoId, ReplyTaskId}, ab \in BOOLEAN : WriteMessage(reply, ab)
    \/ ConsumerNext
    \/ ConsumerReturn
    \/ Abort
    \/ SendResponse
    \/ PaySessionResponse
    \/ PayStatusPoll
    \/ RetryResponse
    \/ PollTimer
    \/ PollNotOk
    \/ PollResponse

Spec == Init /\ [][Next]_vars

\* The same program with a consumer that reads every update (no early return) and
\* with every pending fetch, timer and resume eventually happening.
LiveNext ==
    \/ \E reply \in {NoId, ReplyTaskId}, ab \in BOOLEAN : WriteMessage(reply, ab)
    \/ ConsumerNext
    \/ Abort
    \/ SendResponse
    \/ PaySessionResponse
    \/ PayStatusPoll
    \/ RetryResponse
    \/ PollTimer
    \/ PollNotOk
    \/ PollResponse

\* an invocation on a freshly loaded page
LiveInit ==
    /\ Init
    /\ paymentToken = Null
    /\ currentTaskId = NoId

LiveSpec ==
    /\ LiveInit
    /\ [][LiveNext]_vars
    /\ WF_vars(ConsumerNext)
    /\ WF_vars(SendResponse)
    /\ WF_vars(PaySessionResponse)
    /\ WF_vars(PayStatusPoll)
    /\ WF_vars(RetryResponse)
    /\ WF_vars(PollTimer)
    /\ WF_vars(PollNotOk \/ PollResponse)

\* sendAgentMessage called by any caller: every shape of its optional arguments
ArgContexts == {<<>>, Ctx24, Ctx32, Ctx5}
ArgStates == {NoState, "auth-required"} \cup TaskStates
ResolveArgs ==
    [contextId : ArgContexts, currentTaskId : {NoId, OldTaskId}, taskState : ArgStates,
     replyToTaskId : {NoId, ReplyTaskId, OldTaskId}]

CallSendAgentMessage ==
    /\ pc \in {"idle"} \cup Ended
    /\ \E a \in ResolveArgs : Invoke(a, FALSE)
    /\ UNCHANGED <<isWritingMessage, ignoredCalls>>

ResolveInit ==
    /\ Idle
    /\ invocations = MaxInvocations - 1
    /\ isWritingMessage = FALSE
    /\ ignoredCalls = 0
    /\ StoreInit
    /\ delays = 0
    /\ remote = "up"
    /\ paymentToken = Null
    /\ currentTaskId = NoId
    /\ currentTaskState = NoState

\* the call and the resume that puts the message/send on the wire
ResolveNext ==
    \/ CallSendAgentMessage
    \/ ConsumerNext

ResolveSpec == ResolveInit /\ [][ResolveNext]_vars

\* ------------------------------------------------------------ the chat store
\* status.timestamp: an ISO time <<hour, zone offset>>; new Date(..).getTime()
Timestamps == { <<10, 2>>, <<9, 0>>, <<8, 0>> }
GetTime(ts) == ts[1] - ts[2]

ChatTaskIds == << <<71>>, <<72>>, <<73>> >>
\* the contexts loadContexts has put into the store: one with three tasks, one
\* with none
ContextsLoaded ==
    << [id |-> Ctx24, taskIds |-> ChatTaskIds], [id |-> Ctx32, taskIds |-> <<>>] >>

ChatHistories ==
    { <<>>,
      HistoryChat,
      << [role |-> "agent", parts |-> <<FilePart>>],
         [role |-> "agent", parts |-> <<TextPart(TextA), FilePart, TextPart(TextB)>>] >>,
      << [role |-> "user", parts |-> <<TextPart(<<>>)>>] >> }

\* a task as agentAPI.getTask returns it
ChatTask(id, st, ts, h) == [id |-> id, state |-> st, timestamp |-> ts, history |-> h]
ChatTasks(id) ==
    { ChatTask(id, st, ts, h) :
        st \in {"completed", "input-required"}, ts \in Timestamps, h \in ChatHistories }

\* addMessage's DisplayMessage (its id and its timestamp are left out)
DisplayMessage(text, role, taskId, state) ==
    [text |-> text, role |-> role, taskId |-> taskId, state |-> state]

\* mutant: the tasks are rendered in the order they were loaded
LoadOrder(tasks) == tasks

\* Array.prototype.sort by getTime(), ascending and stable (lines 161-165)
RECURSIVE InsertByTime(_, _)
InsertByTime(sorted, task) ==
    IF sorted = <<>> THEN <<task>>
    ELSE IF GetTime(task.timestamp) < GetTime(sorted[Len(sorted)].timestamp)
    THEN Append(InsertByTime(SubSeq(sorted, 1, Len(sorted) - 1), task), sorted[Len(sorted)])
    ELSE Append(sorted, task)

RECURSIVE SortByTime(_)
SortByTime(tasks) ==
    IF tasks = <<>> THEN <<>>
    ELSE InsertByTime(SortByTime(SubSeq(tasks, 1, Len(tasks) - 1)), tasks[Len(tasks)])

\* parts.filter(kind === 'text').map(text || '')
RECURSIVE TextsOfParts(_)
TextsOfParts(parts) ==
    IF parts = <<>> THEN <<>>
    ELSE (IF Head(parts).kind = "text" THEN <<Head(parts).text>> ELSE <<>>)
         \o TextsOfParts(Tail(parts))

\* lines 170-184: the messages one task's history adds
RECURSIVE HistoryMessages(_, _)
HistoryMessages(task, history) ==
    IF history = <<>> THEN <<>>
    ELSE (IF TextsOfParts(Head(history).parts) # <<>>
          THEN << DisplayMessage(Join(TextsOfParts(Head(history).parts)),
                                 IF Head(history).role = "user" THEN "user" ELSE "assistant",
                                 task.id,
                                 IF Head(history).role = "user" THEN NoState
                                 ELSE task.state) >>
          ELSE <<>>) \o HistoryMessages(task, Tail(history))

RECURSIVE TasksMessages(_)
TasksMessages(tasks) ==
    IF tasks = <<>> THEN <<>>
    ELSE HistoryMessages(Head(tasks), Head(tasks).history) \o TasksMessages(Tail(tasks))

\* the context of the store with id c, <<>> when there is none
FindContext(c) ==
    IF \E i \in 1..Len(contexts) : contexts[i].id = c
    THEN contexts[CHOOSE i \in 1..Len(contexts) : contexts[i].id = c].taskIds
    ELSE <<>>

\* switchContext(c), lines 131-152: up to the first getTask, or to its return when
\* the context is unknown or has no tasks
SwitchContext(c) ==
    /\ switchCall.pc # "loading"
    /\ messages' = <<>>
    /\ contextId' = c
    /\ switchCall' = [pc |-> IF FindContext(c) = <<>> THEN "done" ELSE "loading",
                      ctxId |-> c, todo |-> FindContext(c), loaded |-> <<>>,
                      skipped |-> <<>>]
    /\ pollStopped' = NoState
    /\ UNCHANGED <<contexts, storeTaskId, storeTaskState, storeError>>
    /\ UNCHANGED <<isThinking, pollingInterval, timers, inFlight, sendCall, agent>>
    /\ UNCHANGED engineVars

\* lines 160-197: the tasks loaded are sorted and rendered, the last one becomes
\* the current task
FinishSwitch(loaded) ==
    /\ messages' = messages \o TasksMessages(SortByTime(loaded))
    /\ IF loaded # <<>>
       THEN /\ storeTaskId' = SortByTime(loaded)[Len(loaded)].id
            /\ storeTaskState' = SortByTime(loaded)[Len(loaded)].state
       ELSE UNCHANGED <<storeTaskId, storeTaskState>>

\* the loop of lines 149-158 goes on with the tasks loaded so far; after the last
\* task id the call runs to its end
AfterGetTask(loaded, skipped) ==
    /\ switchCall' = [switchCall EXCEPT
                        !.todo = Tail(switchCall.todo),
                        !.loaded = loaded,
                        !.skipped = skipped,
                        !.pc = IF Len(switchCall.todo) = 1 THEN "done" ELSE "loading"]
    /\ IF Len(switchCall.todo) = 1
       THEN FinishSwitch(loaded)
       ELSE UNCHANGED <<messages, storeTaskId, storeTaskState>>
    /\ UNCHANGED storeError

\* mutant: no try/catch around getTask, the rejection reaches the catch of lines
\* 198-201
GetTaskRejectsUncaught ==
    /\ switchCall' = [switchCall EXCEPT
                        !.todo = <<>>,
                        !.skipped = Append(switchCall.skipped, Head(switchCall.todo)),
                        !.pc = "done"]
    /\ storeError' = "Failed to load context"
    /\ UNCHANGED <<messages, storeTaskId, storeTaskState>>

\* lines 155-157: getTask rejects, the error is logged and the task skipped
GetTaskRejects ==
    AfterGetTask(switchCall.loaded, Append(switchCall.skipped, Head(switchCall.todo)))

\* lines 149-158: one getTask settles, with the task or with an error
GetTaskSettles ==
    /\ switchCall.pc = "loading"
    /\ \/ GetTaskRejects
       \/ \E task \in ChatTasks(Head(switchCall.todo)) :
            AfterGetTask(Append(switchCall.loaded, task), switchCall.skipped)
    /\ UNCHANGED <<contexts, contextId, pollVars>>
    /\ UNCHANGED engineVars

\* the chat page after loadContexts: contexts are switched one call after the other
ChatInit ==
    /\ Idle
    /\ invocations = 0
    /\ isWritingMessage = FALSE
    /\ ignoredCalls = 0
    /\ delays = 0
    /\ remote = "up"
    /\ paymentToken = Null
    /\ currentTaskId = NoId
    /\ currentTaskState = NoState
    /\ messages = <<>>
    /\ contexts = ContextsLoaded
    /\ contextId = Null
    /\ storeTaskId = Null
    /\ storeTaskState = NoState
    /\ switchCall = NoSwitch
    /\ storeError = Null
    /\ isThinking = FALSE
    /\ pollingInterval = Null
    /\ timers = <<>>
    /\ inFlight = {}
    /\ sendCall = NoSend
    /\ agent = <<>>
    /\ pollStopped = NoState

ChatNext ==
    \/ \E c \in {Ctx24, Ctx32, Ctx5} : SwitchContext(c)
    \/ GetTaskSettles

ChatSpec == ChatInit /\ [][ChatNext]_vars

\* ------------------------------------------- the chat store: send and polling
\* sendMessage calls made and getTask requests of the timers waiting at one time
MaxStoreSends == 2
MaxInFlight == 2

isTerminalState(state) == state \in {"completed", "failed", "canceled"}

\* generateUUID(): the task id and the context id of the n-th sendMessage
StoreTaskUUID(n) == <<80 + n>>
StoreContextUUID(n) == <<120 + n>>

\* a store value that may be null, as the id the resolver rules test
OrNoId(x) == IF x = Null THEN NoId ELSE x

UserEntry == [role |-> "user", parts |-> <<TextPart(TextHi)>>]
AssistantEntry == [role |-> "assistant", parts |-> <<TextPart(TextOk)>>]

\* the task the agent holds under id, NoTask-like when it holds none
HasAgentTask(id) == \E i \in 1..Len(agent) : agent[i].id = id
AgentTaskOf(id) == agent[CHOOSE i \in 1..Len(agent) : agent[i].id = id]

\* the agent's tasks after it accepted a message for task id in context c: a new
\* task, or the task it holds with the message added to its history, is working
AgentAccepts(id, c) ==
    IF HasAgentTask(id)
    THEN [i \in 1..Len(agent) |->
            IF agent[i].id = id
            THEN [agent[i] EXCEPT !.state = "working",
                                  !.history = Append(agent[i].history, UserEntry)]
            ELSE agent[i]]
    ELSE Append(agent, [id |-> id, contextId |-> c, state |-> "working",
                        history |-> <<UserEntry>>])

\* sendMessage(text), lines 229-265: up to the await of agentAPI.sendMessage
\* (replyToTaskId stays null: setReplyTo is not called)
StoreSendMessage ==
    /\ sendCall.pc = "idle"
    /\ sendCall.n < MaxStoreSends
    /\ LET n == sendCall.n + 1
           taskId == ChatTaskId(NoId, OrNoId(storeTaskId), storeTaskState, StoreTaskUUID(n))
           refs == ChatReferenceTaskIds(NoId, OrNoId(storeTaskId), storeTaskState)
       IN  /\ messages' = Append(messages, DisplayMessage(TextHi, "user", taskId, NoState))
           /\ sendCall' = [pc |-> "sending", n |-> n, taskId |-> taskId, referenceTaskIds |-> refs,
                           currentContext |-> contextId,
                           useContextId |-> IF contextId = Null THEN StoreContextUUID(n)
                                            ELSE contextId]
    /\ isThinking' = TRUE
    /\ pollStopped' = NoState
    /\ UNCHANGED <<contexts, contextId, storeTaskId, storeTaskState, switchCall, storeError,
                   pollingInterval, timers, inFlight, agent>>
    /\ UNCHANGED engineVars

\* startPollingTask(taskId), lines 298-307 and 348: the running timer is cleared
\* and a new one set
StartPollingTask(taskId) ==
    /\ timers' = Append(timers, [taskId |-> taskId, lastHistoryLength |-> 0])
    /\ pollingInterval' = <<Len(timers) + 1>>

\* sendMessage, lines 265-295: agentAPI.sendMessage settles, with the task the
\* agent made of the message or with an error
StoreSendSettles ==
    /\ sendCall.pc = "sending"
    /\ sendCall' = [NoSend EXCEPT !.n = sendCall.n]
    /\ \/ /\ agent' = AgentAccepts(sendCall.taskId, sendCall.useContextId)
          /\ contextId' = (IF sendCall.currentContext = Null THEN sendCall.useContextId
                           ELSE contextId)
          /\ storeTaskId' = sendCall.taskId
          /\ StartPollingTask(sendCall.taskId)
          /\ UNCHANGED <<storeError, isThinking>>
       \/ /\ storeError' = "Failed to send message"
          /\ isThinking' = FALSE
          /\ UNCHANGED <<agent, contextId, storeTaskId, pollingInterval, timers>>
    /\ UNCHANGED <<messages, contexts, storeTaskState, switchCall, inFlight, pollStopped>>
    /\ UNCHANGED engineVars

\* the remote agent ends its work on a task: with an answer, asking for input, or
\* failing
AgentStep ==
    \E i \in 1..Len(agent), st \in {"completed", "input-required", "failed"} :
        /\ agent[i].state = "working"
        /\ agent' = [agent EXCEPT
                        ![i].state = st,
                        ![i].history = IF st = "failed" THEN agent[i].history
                                       ELSE Append(agent[i].history, AssistantEntry)]
        /\ UNCHANGED <<messages, contexts, contextId, storeTaskId, storeTaskState, switchCall,
                       storeError, isThinking, pollingInterval, timers, inFlight, sendCall,
                       pollStopped>>
        /\ UNCHANGED engineVars

\* lines 307-309: the running timer fires and its callback requests the task; the
\* agent answers with the task as it is then, the answer is under way
PollTick ==
    /\ pollingInterval # Null
    /\ Cardinality(inFlight) < MaxInFlight
    /\ inFlight' = inFlight \cup
          { [timer |-> pollingInterval[1],
              task |-> AgentTaskOf(timers[pollingInterval[1]].taskId)] }
    /\ UNCHANGED <<messages, contexts, contextId, storeTaskId, storeTaskState, switchCall,
                   storeError, isThinking, pollingInterval, timers, sendCall, agent,
                   pollStopped>>
    /\ UNCHANGED engineVars

\* lines 313-327: the assistant messages of history after the first `from` entries
RECURSIVE NewAssistantMessages(_, _, _)
NewAssistantMessages(task, history, from) ==
    IF Len(history) <= from THEN <<>>
    ELSE NewAssistantMessages(task, SubSeq(history, 1, Len(history) - 1), from)
         \o (IF /\ history[Len(history)].role = "assistant"
                 /\ TextsOfParts(history[Len(history)].parts) # <<>>
              THEN << DisplayMessage(Join(TextsOfParts(history[Len(history)].parts)),
                                     "assistant", task.id, task.state) >>
              ELSE <<>>)

\* lines 335-338 and 343-346: if (pollingInterval) clearInterval(pollingInterval)
StopPolling ==
    /\ isThinking' = FALSE
    /\ pollingInterval' = Null

\* lines 310-339: the callback of timer p.timer goes on with the task answered
PollAnswered200(p) ==
    LET last == timers[p.timer].lastHistoryLength
        history == p.task.history
    IN  /\ messages' = messages \o NewAssistantMessages(p.task, history, last)
        /\ timers' = [timers EXCEPT ![p.timer].lastHistoryLength =
                         IF Len(history) > last THEN Len(history) ELSE last]
        /\ storeTaskState' = p.task.state
        /\ IF isTerminalState(p.task.state)
           THEN StopPolling /\ pollStopped' = p.task.state
           ELSE UNCHANGED <<isThinking, pollingInterval, pollStopped>>

\* lines 340-347: getTask rejected
PollRejected ==
    /\ StopPolling
    /\ UNCHANGED <<messages, timers, storeTaskState, pollStopped>>

\* a getTask of a timer callback settles
PollSettles ==
    \E p \in inFlight :
        /\ inFlight' = inFlight \ {p}
        /\ \/ PollAnswered200(p)
           \/ PollRejected
        /\ UNCHANGED <<contexts, contextId, storeTaskId, switchCall, storeError, sendCall,
                       agent>>
        /\ UNCHANGED engineVars

\* createNewContext(), lines 204-210
CreateNewContext ==
    /\ contextId' = Null
    /\ storeTaskId' = Null
    /\ storeTaskState' = NoState
    /\ messages' = <<>>
    /\ pollStopped' = NoState
    /\ UNCHANGED <<contexts, switchCall, storeError, isThinking, pollingInterval, timers,
                   inFlight, sendCall, agent>>
    /\ UNCHANGED engineVars

\* the chat page before loadContexts has listed a context: messages are sent and
\* polled for while contexts are switched and new ones begun
StoreSpecInit ==
    /\ Idle
    /\ invocations = 0
    /\ isWritingMessage = FALSE
    /\ ignoredCalls = 0
    /\ delays = 0
    /\ remote = "up"
    /\ paymentToken = Null
    /\ currentTaskId = NoId
    /\ currentTaskState = NoState
    /\ messages = <<>>
    /\ contexts = <<>>
    /\ contextId = Null
    /\ storeTaskId = Null
    /\ storeTaskState = NoState
    /\ switchCall = NoSwitch
    /\ storeError = Null
    /\ isThinking = FALSE
    /\ pollingInterval = Null
    /\ timers = <<>>
    /\ inFlight = {}
    /\ sendCall = NoSend
    /\ agent = <<>>
    /\ pollStopped = NoState

StoreNext ==
    \/ StoreSendMessage
    \/ StoreSendSettles
    \/ AgentStep
    \/ PollTick
    \/ PollSettles
    \/ CreateNewContext
    \/ SwitchContext(Ctx24)

StoreSpec == StoreSpecInit /\ [][StoreNext]_vars

\* The extractor on tasks of every shape: one call on a fresh page, the
\* message/send answered at once, the first tasks/get finding the task completed.
ExtractPollResponse ==
    /\ pc = "poll"
    /\ ~aborted
    /\ \E t \in ExtractTasks :
         /\ lastPoll' = PollAnswered(lastPoll, 200, "none")
         /\ PollAnswer(ResultBody(t))
    /\ UNCHANGED <<paymentToken, heldToken, paymentSession, payStatus, remote, storeVars,
                   isWritingMessage, ignoredCalls, invocations, args, agentMessage,
                   headers, attempt, attempts, submittedTaskId, sends, polls, payCalls,
                   aborted, currentTaskId, currentTaskState>>

ExtractInit ==
    /\ Idle
    /\ invocations = MaxInvocations - 1
    /\ isWritingMessage = FALSE
    /\ ignoredCalls = 0
    /\ StoreInit
    /\ delays = 0
    /\ remote = "up"
    /\ paymentToken = Null
    /\ currentTaskId = NoId
    /\ currentTaskState = NoState

ExtractNext ==
    \/ WriteMessage(NoId, FALSE)
    \/ ConsumerNext
    \/ SendResponse
    \/ ExtractPollResponse

ExtractSpec == ExtractInit /\ [][ExtractNext]_vars

\* A page session from its load on: two writeMessage calls one after the other,
\* further calls made while one is in progress, a remote agent that is up.
SessionInit ==
    /\ Idle
    /\ invocations = MaxInvocations - 2
    /\ isWritingMessage = FALSE
    /\ ignoredCalls = 0
    /\ StoreInit
    /\ delays = MaxDelays - 1
    /\ remote = "up"
    /\ paymentToken = Null
    /\ currentTaskId = NoId
    /\ currentTaskState = NoState

SessionNext ==
    \/ \E reply \in {NoId, ReplyTaskId}, ab \in BOOLEAN : WriteMessage(reply, ab)
    \/ WriteMessageIgnored
    \/ ConsumerNext
    \/ ConsumerReturn
    \/ Abort
    \/ SendResponse
    \/ PaySessionResponse
    \/ PayStatusPoll
    \/ RetryResponse
    \/ PollTimer
    \/ PollNotOk
    \/ PollResponse

SessionSpec == SessionInit /\ [][SessionNext]_vars

\* --------------------------------------------------------------- properties
Count(seq, type) == Cardinality({i \in 1..Len(seq) : seq[i].type = type})

\* C1: an invocation that completed normally yielded exactly one FinalAnswer,
\* directly followed by Status{finished}, which is its last update.
C1_OneFinalAnswerThenFinished ==
    pc = "done" =>
        /\ Count(updates, "finalAnswer") = 1
        /\ Len(updates) >= 2
        /\ updates[Len(updates) - 1].type = "finalAnswer"
        /\ updates[Len(updates)] = Finished
        /\ err = <<>>

C1_Witness ==
    /\ pc = "done"
    /\ Count(updates, "finalAnswer") = 1
    /\ updates[Len(updates)] = Finished

\* C2: an invocation that raised an error yielded Status{error} with that error's
\* message as its last update, whatever the failure was; and an error is only
\* ever raised through that update.
C2_ErrorUpdateBeforeRaise ==
    /\ pc = "thrown" =>
          /\ err # <<>>
          /\ Len(updates) >= 1
          /\ updates[Len(updates)] = ErrorUpdate(err)
    /\ err # <<>> => pc \in {"yError", "thrown", "closed"}

C2_Witness ==
    /\ pc = "thrown"
    /\ err = <<"Task polling timeout">>
    /\ updates[Len(updates)] = ErrorUpdate(err)

\* C3: Status{started} is the first update of every invocation, also of one that
\* fails and of one whose signal was aborted before any request, and no
\* message/send request is issued before it was yielded.
C3_StartedFirst ==
    /\ pc # "idle" => Len(updates) >= 1 /\ updates[1] = Started
    /\ sends # <<>> => Len(updates) >= 1 /\ updates[1] = Started
    /\ \A i \in 2..Len(updates) : updates[i] # Started

C3_Witness ==
    /\ pc = "thrown"
    /\ aborted
    /\ sends = <<>>
    /\ updates = <<Started, ErrorUpdate(<<"The operation was aborted">>)>>

\* C4: with every request and timer eventually answered and a consumer that keeps
\* reading, a running invocation eventually ends, by completing or by raising.
C4_InvocationEnds ==
    (pc \notin {"idle"} \cup Ended) ~> (pc \in {"done", "thrown"})

C4_Witness ==
    /\ pc = "thrown"
    /\ err = <<"Task polling timeout">>
    /\ polls = maxAttempts
    /\ attempt = maxAttempts

\* C5: with replyToTaskId set, whatever currentTaskId and currentTaskState are, the
\* outgoing message has a freshly generated taskId, different from currentTaskId,
\* and referenceTaskIds = [replyToTaskId]; the chat store resolves the same.
C5_ExplicitReplyNewTask ==
    (pc # "idle" /\ args.replyToTaskId # NoId) =>
        /\ agentMessage.taskId = GenerateId(invocations, 2)
        /\ agentMessage.taskId # args.currentTaskId
        /\ agentMessage.referenceTaskIds = <<args.replyToTaskId>>
        /\ \A i \in 1..Len(sends) : sends[i].message = agentMessage
        /\ ChatTaskId(args.replyToTaskId, args.currentTaskId, args.taskState,
                      GenerateId(invocations, 2)) = GenerateId(invocations, 2)
        /\ ChatReferenceTaskIds(args.replyToTaskId, args.currentTaskId, args.taskState)
               = <<args.replyToTaskId>>

C5_Witness ==
    /\ pc = "send"
    /\ args.replyToTaskId = ReplyTaskId
    /\ args.currentTaskId = OldTaskId
    /\ args.taskState = "input-required"
    /\ sends[1].message.taskId = GenerateId(invocations, 2)
    /\ sends[1].message.referenceTaskIds = <<ReplyTaskId>>

\* C6: without replyToTaskId, with currentTaskId set and the task input-required
\* or auth-required, the outgoing message reuses currentTaskId as its taskId and
\* has no referenceTaskIds.
C6_OpenTaskReused ==
    (/\ pc # "idle"
     /\ args.replyToTaskId = NoId
     /\ args.currentTaskId # NoId
     /\ args.taskState \in {"input-required", "auth-required"}) =>
        /\ agentMessage.taskId = args.currentTaskId
        /\ agentMessage.referenceTaskIds = <<>>
        /\ \A i \in 1..Len(sends) : sends[i].message = agentMessage

C6_Witness ==
    /\ pc = "send"
    /\ args.replyToTaskId = NoId
    /\ args.taskState = "auth-required"
    /\ sends[1].message.taskId = OldTaskId
    /\ sends[1].message.referenceTaskIds = <<>>

\* C7: without replyToTaskId and with the task not input-required / auth-required,
\* the outgoing message has a new taskId, and referenceTaskIds = [currentTaskId]
\* if currentTaskId is present, empty if not; no message ever has more than one
\* referenceTaskId.
C7_NewTaskReferencesPrevious ==
    pc # "idle" =>
        /\ Len(agentMessage.referenceTaskIds) <= 1
        /\ \A i \in 1..Len(sends) : sends[i].message = agentMessage
        /\ (/\ args.replyToTaskId = NoId
            /\ args.taskState \notin {"input-required", "auth-required"}) =>
               /\ agentMessage.taskId = GenerateId(invocations, 2)
               /\ agentMessage.taskId # args.currentTaskId
               /\ agentMessage.referenceTaskIds =
                      (IF args.currentTaskId # NoId THEN <<args.currentTaskId>> ELSE <<>>)

C7_Witness ==
    /\ pc = "send"
    /\ args.replyToTaskId = NoId
    /\ args.taskState = "completed"
    /\ args.currentTaskId = OldTaskId
    /\ sends[1].message.taskId = GenerateId(invocations, 2)
    /\ sends[1].message.referenceTaskIds = <<OldTaskId>>

\* C8 as stated: after a 402 and a payment completed with a token, the retried
\* request repeats the message and carries that token in X-PAYMENT, and the first
\* request carried no X-PAYMENT header.
C8_RetryCarriesTokenFirstNone ==
    Len(sends) = 2 =>
        /\ sends[2].message = sends[1].message
        /\ sends[2].xPayment = paymentSession
        /\ sends[1].xPayment = Absent

\* C8, amended: after a 402 and a payment completed with a token, the same message
\* is sent again unless the caller aborted meanwhile; the retry's X-PAYMENT holds
\* the token trimmed of surrounding white space if that is ASCII-only, and is not
\* present if it is not; the first request carried the X-PAYMENT of the token held
\* when the invocation started, none only if none was held.
C8_RetrySameSendTrimmedToken ==
    /\ paymentSession # Null =>
          /\ payCalls = 1
          /\ Len(sends) = 2 \/ (Len(sends) = 1 /\ aborted
                                  /\ err = <<"The operation was aborted">>)
    /\ Len(sends) = 2 =>
          /\ paymentSession # Null
          /\ sends[1].message = agentMessage
          /\ sends[2].message = sends[1].message
          /\ sends[2].xPayment = (IF IsAscii(Trim(paymentSession))
                                  THEN Trim(paymentSession) ELSE Absent)
          /\ sends[1].xPayment = (IF heldToken = Null \/ ~IsAscii(Trim(heldToken))
                                  THEN Absent ELSE Trim(heldToken))

C8_Witness ==
    /\ pc = "retry"
    /\ payCalls = 1
    /\ heldToken = Null
    /\ paymentSession = <<32, 116>>
    /\ Len(sends) = 2
    /\ sends[1].xPayment = Absent
    /\ sends[2].xPayment = <<116>>
    /\ sends[2].message = sends[1].message

\* C9: when the first send is answered 402 and the payment challenge returns
\* false, the invocation fails with "Payment required but not completed", having
\* issued one message/send and no tasks/get and yielded no TaskMetadata and no
\* FinalAnswer.
C9_PaymentRefusedFails ==
    /\ (payCalls = 1 /\ paymentSession = Null /\ pc \notin {"paySession", "payWait"}) =>
          /\ err = <<"Payment required but not completed">>
          /\ pc \in {"yError", "thrown", "closed"}
    /\ err = <<"Payment required but not completed">> =>
          /\ payCalls = 1
          /\ paymentSession = Null
          /\ Len(sends) = 1
          /\ polls = 0
          /\ Count(updates, "taskMetadata") = 0
          /\ Count(updates, "finalAnswer") = 0
          /\ updates = <<Started, ErrorUpdate(err)>>

C9_Witness ==
    /\ pc = "thrown"
    /\ payCalls = 1
    /\ paymentSession = Null
    /\ err = <<"Payment required but not completed">>
    /\ Len(sends) = 1
    /\ polls = 0

\* C10: an invocation issues at most two message/send requests and at most one
\* payment challenge, the second send only after the challenge succeeded; once
\* the send was retried no challenge runs, and a refused retry, a second 402
\* included, has failed the invocation after one challenge and two sends.
C10_OneRetryOneChallenge ==
    /\ Len(sends) <= 2
    /\ payCalls <= 1
    /\ Len(sends) = 2 =>
          /\ payCalls = 1
          /\ paymentSession # Null
          /\ pc \notin {"send", "paySession", "payWait"}
    /\ (Len(err) = 2 /\ err[1] = "Agent request failed after payment: ") =>
          /\ Len(sends) = 2
          /\ payCalls = 1
          /\ polls = 0
          /\ pc \in {"yError", "thrown", "closed"}

C10_Witness ==
    /\ pc = "thrown"
    /\ err = <<"Agent request failed after payment: ", "402">>
    /\ Len(sends) = 2
    /\ payCalls = 1

\* C11: after an invocation completed normally on a poll that observed completed,
\* no payment token is held: getPaymentHeaders() gives no X-PAYMENT header and
\* hasPaymentToken() is false.
C11_CompletedClearsToken ==
    (pc = "done" /\ currentTask.state = "completed") =>
        /\ paymentToken = Null
        /\ GetPaymentHeaders(paymentToken) = Absent
        /\ ~HasPaymentToken(paymentToken)

C11_Witness ==
    /\ pc = "done"
    /\ currentTask.state = "completed"
    /\ heldToken = <<32, 116>>
    /\ Len(sends) = 1
    /\ sends[1].xPayment = <<116>>
    /\ paymentToken = Null

\* C12: an invocation that ends on a poll that observed input-required has
\* yielded FinalAnswer and Status{finished}, and no step from that poll's answer
\* to the return changes the payment token.
C12_InputRequiredKeepsToken ==
    /\ [](( pc = "done" /\ currentTask.state = "input-required") =>
            /\ Len(updates) >= 2
            /\ updates[Len(updates) - 1] = FinalAnswer(extractTextFromTask(currentTask))
            /\ updates[Len(updates)] = Finished)
    /\ [][(/\ pc \in {"poll", "yPollMeta", "yFinal", "yFinished"}
            /\ currentTask'.state = "input-required")
           => paymentToken' = paymentToken]_vars

C12_Witness ==
    /\ pc = "done"
    /\ currentTask.state = "input-required"
    /\ paymentSession = <<32, 116>>
    /\ paymentToken = <<32, 116>>
    /\ HasPaymentToken(paymentToken)

C14_FailedPollNeverEnds ==
    ~(polls >= 1 /\ err = <<"Failed to fetch">>)

\* C15: an invocation issues at most 300 tasks/get requests; when the loop has run
\* out, after 300 requests none of which was answered with completed,
\* input-required, failed or canceled, it has failed with "Task polling timeout"
\* and yielded no FinalAnswer.
C15_PollBudget ==
    /\ polls <= maxAttempts
    /\ attempt <= maxAttempts
    /\ attempt = maxAttempts <=> err = <<"Task polling timeout">>
    /\ err = <<"Task polling timeout">> =>
          /\ polls = maxAttempts
          /\ pc \in {"yError", "thrown", "closed"}
          /\ Count(updates, "finalAnswer") = 0
          /\ updates[Len(updates)] = ErrorUpdate(err)
          /\ \A i \in 3..(Len(updates) - 1) :
                /\ updates[i].type = "taskMetadata"
                /\ updates[i].status \in {"submitted", "working"}

C15_Witness ==
    /\ pc = "thrown"
    /\ remote = "busy"
    /\ err = <<"Task polling timeout">>
    /\ polls = maxAttempts
    /\ Count(updates, "taskMetadata") = maxAttempts + 1
    /\ Count(updates, "finalAnswer") = 0

\* C16: once the abortSignal has fired no tasks/get is issued; when it has fired
\* in the gap after a poll attempt that left the task submitted or working and
\* before the next attempt's fetch, the 1 s wait included, the generator's next
\* step fails with a cancellation error and no FinalAnswer has been yielded.
C16_AbortStopsPolling ==
    /\ [][polls' > polls => ~aborted]_vars
    /\ [][(/\ aborted
            /\ \/ pc = "wait"
               \/ /\ pc = "yPollMeta"
                  /\ currentTask.state \in {"submitted", "working"}
                  /\ attempt + 1 < maxAttempts)
           => /\ polls' = polls
              /\ pc' \in {pc, "closed", "yError"}
              /\ pc' = "yError" =>
                    /\ err' \in {<<"Request aborted">>, <<"The operation was aborted">>}
                    /\ updates' = Append(updates, ErrorUpdate(err'))
                    /\ Count(updates', "finalAnswer") = 0]_vars

C16_Witness ==
    /\ pc = "thrown"
    /\ aborted
    /\ err = <<"The operation was aborted">>
    /\ attempt >= 1
    /\ polls = attempt
    /\ Count(updates, "finalAnswer") = 0

\* what an update is, leaving its ids and text aside
UpdateTag(u) ==
    IF u.type = "finalAnswer"
    THEN <<u.type, IF u.interrupted THEN "interrupted" ELSE "not interrupted">>
    ELSE <<u.type, u.status>>
Tags(seq) == [i \in 1..Len(seq) |-> UpdateTag(seq[i])]

\* a send with no prior task, completed on its third tasks/get, the three having
\* observed submitted, working, completed
ThreePollScenario ==
    /\ pc = "done"
    /\ args.currentTaskId = NoId
    /\ args.replyToTaskId = NoId
    /\ polls = 3
    /\ observed = <<"submitted", "working", "completed">>

\* C17 as stated: in that scenario the updates are exactly Status{started},
\* TaskMetadata(submitted), TaskMetadata(working), TaskMetadata(completed),
\* FinalAnswer{interrupted: false}, Status{finished}, and the token is cleared.
C17_SixUpdates ==
    ThreePollScenario =>
        /\ Tags(updates) =
              << <<"status", "started">>, <<"taskMetadata", "submitted">>,
                 <<"taskMetadata", "working">>, <<"taskMetadata", "completed">>,
                 <<"finalAnswer", "not interrupted">>, <<"status", "finished">> >>
        /\ paymentToken = Null

\* C17, amended: in that scenario the updates are exactly Status{started}, the
\* TaskMetadata of the message/send answer with the state it reported, then
\* TaskMetadata(submitted), TaskMetadata(working), TaskMetadata(completed),
\* FinalAnswer{interrupted: false} with the extracted text, Status{finished};
\* every TaskMetadata names the answered task id and no referenceTaskIds, and the
\* token is cleared.
C17_SevenUpdates ==
    ThreePollScenario =>
        /\ Len(updates) = 7
        /\ updates[2].type = "taskMetadata"
        /\ \E st \in TaskStates :
              Tags(updates) =
                  << <<"status", "started">>, <<"taskMetadata", st>>,
                     <<"taskMetadata", "submitted">>,
                     <<"taskMetadata", "working">>, <<"taskMetadata", "completed">>,
                     <<"finalAnswer", "not interrupted">>, <<"status", "finished">> >>
        /\ \A i \in 2..5 : /\ updates[i].taskId = submittedTaskId
                            /\ updates[i].contextId = agentMessage.contextId
                            /\ updates[i].referenceTaskIds = <<>>
        /\ agentMessage.taskId = GenerateId(invocations, 2)
        /\ updates[6].text = extractTextFromTask(currentTask)
        /\ paymentToken = Null

C17_Witness ==
    /\ ThreePollScenario
    /\ Len(updates) = 7
    /\ updates[2].status = "submitted"
    /\ updates[6] = FinalAnswer(TextFinal)
    /\ updates[7] = Finished
    /\ heldToken = <<32, 116>>
    /\ paymentToken = Null

\* C18 as stated: the token stored on a true return is a present one, and after
\* handlePaymentRequired has returned false no payment token is held, whatever
\* was held before the call.
C18_FalseLeavesNoToken ==
    /\ paymentSession # Null => Truthy(paymentSession)
    /\ (payCalls = 1 /\ paymentSession = Null /\ pc \notin {"paySession", "payWait"}) =>
          paymentToken = Null

\* C19: handlePaymentRequired issues at most 60 payment-status requests; it has
\* returned true only on an answer with status completed and a token; an answer
\* with status failed has made it return false at once; and the 60th request
\* answered otherwise has made it return false.
C19_PaymentStatusBudget ==
    /\ payStatus.n <= paymentMaxAttempts
    /\ pc = "payWait" => (payStatus.n = attempts /\ attempts < paymentMaxAttempts)
    /\ paymentSession # Null =>
          /\ payStatus.status = "completed"
          /\ Truthy(payStatus.payment_token)
          /\ paymentSession = payStatus.payment_token
    /\ payStatus.status = "failed" =>
          /\ pc \in {"yError", "thrown", "closed"}
          /\ paymentSession = Null
          /\ err = <<"Payment required but not completed">>
    /\ (/\ payStatus.n = paymentMaxAttempts
        /\ ~(payStatus.status = "completed" /\ Truthy(payStatus.payment_token))) =>
          /\ pc \in {"yError", "thrown", "closed"}
          /\ paymentSession = Null
          /\ err = <<"Payment required but not completed">>
    /\ (payStatus.status = "completed" /\ Truthy(payStatus.payment_token)) =>
          paymentSession = payStatus.payment_token

C19_Witness ==
    /\ pc = "thrown"
    /\ remote = "unpaid"
    /\ payStatus.n = paymentMaxAttempts
    /\ payStatus.status = "pending"
    /\ paymentSession = Null
    /\ err = <<"Payment required but not completed">>

\* C20: when the payment session cannot be started or its popup cannot be opened,
\* handlePaymentRequired returns false (the invocation fails with the payment
\* error) with no payment-status request issued and the payment token as it was.
C20_NoSessionNoStatusRequest ==
    /\ [][(pc = "paySession" /\ pc' \notin {"paySession", "payWait"}) =>
             /\ pc' = "yError"
             /\ err' = <<"Payment required but not completed">>
             /\ paymentToken' = paymentToken
             /\ payStatus' = NoPayStatus
             /\ paymentSession' = Null
             /\ sends' = sends]_vars
    /\ [](pc = "paySession" => payStatus = NoPayStatus)

C20_Witness ==
    /\ pc = "thrown"
    /\ payCalls = 1
    /\ payStatus = NoPayStatus
    /\ err = <<"Payment required but not completed">>
    /\ heldToken = <<32, 116>>
    /\ paymentToken = <<32, 116>>

\* C21: when the payment session completes with a token holding a non-ASCII
\* character, the token is discarded and cleared and no request carries an
\* X-PAYMENT header derived from it: neither the retried message/send nor any
\* tasks/get, neither with the corrupt value nor with an empty value.
C21_NonAsciiTokenLeavesNoHeader ==
    (paymentSession # Null /\ ~IsAscii(paymentSession)) =>
        /\ paymentToken = Null
        /\ \A i \in 2..Len(sends) : sends[i].xPayment = Absent
        /\ lastPoll.xPayment = Absent

\* C22 as stated: in every reachable state getPaymentHeaders() returns exactly
\* {X-PAYMENT: token} when a valid (ASCII-only) token is held and {} otherwise.
C22_HeadersExactlyToken ==
    GetPaymentHeaders(paymentToken) =
        (IF paymentToken # Null /\ IsAscii(paymentToken) THEN paymentToken ELSE Absent)

\* h is the string tok without its leading and trailing white space
IsTrimOf(h, tok) ==
    \E i \in 1..(Len(tok) + 1), j \in 0..Len(tok) :
        /\ h = (IF i > j THEN <<>> ELSE SubSeq(tok, i, j))
        /\ \A k \in 1..Len(tok) : (k < i \/ k > j) => IsWhiteSpace(tok[k])
        /\ i <= j => ~IsWhiteSpace(tok[i]) /\ ~IsWhiteSpace(tok[j])

\* C22 (amended): in every reachable state getPaymentHeaders() returns
\* {X-PAYMENT: the held token without its surrounding white space} when a token is
\* held, and {} when none is held; once no token is held, none is held again until
\* a payment-status answer reports a completed payment, whose payment_token it is.
C22_HeadersTrimmedToken ==
    /\ [](IF paymentToken = Null
          THEN GetPaymentHeaders(paymentToken) = Absent
          ELSE /\ GetPaymentHeaders(paymentToken) # Absent
               /\ IsTrimOf(GetPaymentHeaders(paymentToken), paymentToken))
    /\ [][(paymentToken = Null /\ paymentToken' # Null) =>
              /\ payStatus'.status = "completed"
              /\ payStatus'.payment_token = paymentToken']_vars

\* a token obtained by payment is held and was put, trimmed, on the headers used
\* for polling
C22_Witness ==
    /\ pc = "yMeta"
    /\ heldToken = Null
    /\ paymentSession = <<32, 116>>
    /\ paymentToken = paymentSession
    /\ headers = <<116>>
    /\ headers = GetPaymentHeaders(paymentToken)

\* C23: an HTTP 402 answer to a tasks/get starts the payment challenge (one more
\* handlePaymentRequired call, the session start pending) instead of being
\* ignored or treated as an error.
C23_PaymentRequiredOnPollStartsChallenge ==
    [][(lastPoll.status = 0 /\ lastPoll'.status = 402) =>
           /\ payCalls' = payCalls + 1
           /\ pc' = "paySession"]_vars

\* C24: whenever the body answered to a tasks/get holds an error field with a
\* message, the invocation fails with that message (Status{error, message}, then
\* the raise), whatever the HTTP status of the answer was.
C24_ErrorEnvelopeAlwaysFails ==
    [][(lastPoll.status = 0 /\ lastPoll'.status # 0
        /\ lastPoll'.error \notin {"none", ""}) =>
           /\ pc' = "yError"
           /\ err' = <<lastPoll'.error>>]_vars

\* C25: a payment token obtained for one task is never sent with a new task: when
\* an invocation created a new task id, its first message/send carries no
\* X-PAYMENT header, whatever way the earlier invocation ended.
C25_NewTaskCarriesNoOldToken ==
    (Len(sends) >= 1 /\ agentMessage.taskId = GenerateId(invocations, 2)) =>
        sends[1].xPayment = Absent

\* C26: when an invocation obtained a (valid) payment token and ended with the task
\* in state input-required, the next invocation that continues the same task id
\* builds its headers with X-PAYMENT holding that token, and its first
\* message/send goes out with these headers.
C26_ContinuationCarriesToken ==
    /\ [][(/\ pc \in {"done", "closed"}
           /\ currentTask.state = "input-required"
           /\ paymentSession # Null
           /\ IsAscii(Trim(paymentSession))
           /\ invocations' = invocations + 1
           /\ agentMessage'.taskId = submittedTaskId) =>
              /\ headers' # Absent
              /\ IsTrimOf(headers', paymentSession)]_vars
    /\ [][(pc = "yStarted" /\ pc' = "send") =>
              sends' = <<SendRequest(agentMessage, headers)>>]_vars

\* the second invocation continues the input-required task of the first one and
\* its message/send carries the token the first one paid for
C26_Witness ==
    /\ invocations = 2
    /\ pc = "send"
    /\ args.taskState = "input-required"
    /\ agentMessage.taskId = args.currentTaskId
    /\ heldToken = <<32, 116>>
    /\ Len(sends) = 1
    /\ sends[1].xPayment = <<116>>

\* C27: the conversation page never has two writeMessage calls running at once:
\* the guard is set exactly while a call runs (so it is reset on every way the
\* call ends: return, early return on abort, raise), a call starts only when no
\* other is running, and a call made while one is running sends nothing, starts
\* nothing and leaves the guard as it is.
C27_OneWriteMessageAtATime ==
    /\ [](isWritingMessage <=> pc \notin ({"idle"} \cup Ended))
    /\ [][invocations' # invocations => pc \in ({"idle"} \cup Ended)]_vars
    /\ [][ignoredCalls' # ignoredCalls =>
              /\ isWritingMessage' = isWritingMessage
              /\ invocations' = invocations
              /\ sends' = sends
              /\ pc' = pc]_vars

\* a call was turned away while the first call ran, the first call ended, and the
\* second call is running
C27_Witness ==
    /\ ignoredCalls = 1
    /\ invocations = 2
    /\ isWritingMessage
    /\ pc = "send"

\* C28: the context id put on the wire is a newly generated id when none is given,
\* the given id followed by '0' up to 32 characters when it has exactly 24
\* characters, and the given id unchanged for every other length; applying the
\* padding to the id on the wire changes nothing.
C28_WireContextId ==
    pc # "idle" =>
        /\ agentMessage.contextId =
             (IF args.contextId = <<>> THEN GenerateIdString(invocations, 3)
              ELSE IF Len(args.contextId) = 24
              THEN [i \in 1..32 |-> IF i <= 24 THEN args.contextId[i] ELSE 48]
              ELSE args.contextId)
        /\ WireContextId(agentMessage.contextId, <<>>) = agentMessage.contextId
        /\ \A i \in 1..Len(sends) : sends[i].message.contextId = agentMessage.contextId

\* a 24-character context id went out padded to 32 characters
C28_Witness ==
    /\ pc = "send"
    /\ args.contextId = Ctx24
    /\ Len(sends) = 1
    /\ Len(sends[1].message.contextId) = 32
    /\ SubSeq(sends[1].message.contextId, 1, 24) = Ctx24
    /\ sends[1].message.contextId[25] = 48

\* --- C29: the text of FinalAnswer, stated without the extractor's loops
\* a text part: a part of kind text that has a text (a non-empty one)
IsTextPart(part) == part.kind = "text" /\ part.text # <<>>

\* the places <<a, p>> of the artifact texts of a task: part p of artifact a, and,
\* with ownText, p = 0 for the text field of an artifact that has no parts list
ArtifactTextPlaces(task, ownText) ==
    UNION { { <<a, p>> : p \in { q \in 0..Len(task.artifacts[a].parts) :
                IF q = 0
                THEN ownText /\ ~task.artifacts[a].hasParts /\ task.artifacts[a].text # <<>>
                ELSE task.artifacts[a].hasParts
                     /\ IsTextPart(task.artifacts[a].parts[q]) } } :
            a \in 1..Len(task.artifacts) }

PlaceBefore(x, y) == x[1] < y[1] \/ (x[1] = y[1] /\ x[2] < y[2])

TextAtPlace(task, x) ==
    IF x[2] = 0 THEN task.artifacts[x[1]].text ELSE task.artifacts[x[1]].parts[x[2]].text

\* the artifact texts in artifact order and, within an artifact, part order
ArtifactTextsInOrder(task, ownText) ==
    LET P == ArtifactTextPlaces(task, ownText)
    IN  [k \in 1..Cardinality(P) |->
            TextAtPlace(task, CHOOSE x \in P :
                                 Cardinality({y \in P : PlaceBefore(y, x)}) = k - 1)]

\* the first text part of the most recent assistant/agent entry that has one
HistoryAnswer(task) ==
    LET h == task.history
        HasText(i) == \E p \in 1..Len(h[i].parts) : IsTextPart(h[i].parts[p])
        I == {i \in 1..Len(h) : h[i].role \in {"assistant", "agent"} /\ HasText(i)}
    IN  IF I = {} THEN <<>>
        ELSE LET i == CHOOSE n \in I : \A j \in I : j <= n
                 p == CHOOSE n \in 1..Len(h[i].parts) :
                        /\ IsTextPart(h[i].parts[n])
                        /\ \A q \in 1..(n - 1) : ~IsTextPart(h[i].parts[q])
             IN  h[i].parts[p].text

ExpectedText(task, ownText) ==
    IF ArtifactTextPlaces(task, ownText) # {}
    THEN Join(ArtifactTextsInOrder(task, ownText))
    ELSE HistoryAnswer(task)

\* C29 as stated: the text of FinalAnswer is the newline-joined text of every text
\* part of every artifact in order when there is one; otherwise the first text
\* part of the most recent history entry of role assistant or agent that has a
\* text part; otherwise the empty string.
C29_TextOfEveryTextPart ==
    \A i \in 1..Len(updates) :
        updates[i].type = "finalAnswer" => updates[i].text = ExpectedText(currentTask, FALSE)

\* C29 (amended): the same with an artifact that has no parts list contributing
\* its own text field, at its place in artifact order, when that is not empty.
C29_TextWithArtifactOwnText ==
    \A i \in 1..Len(updates) :
        updates[i].type = "finalAnswer" => updates[i].text = ExpectedText(currentTask, TRUE)

\* the answer joined from an artifact's own text and the two text parts of the
\* next artifact, with a history that has a text of its own
C29_Witness ==
    /\ pc = "yFinal"
    /\ Len(currentTask.artifacts) = 2
    /\ ~currentTask.artifacts[1].hasParts
    /\ currentTask.artifacts[1].text = TextOk
    /\ currentTask.artifacts[2].parts = <<TextPart(TextA), TextPart(TextB)>>
    /\ Len(currentTask.history) = 1
    /\ currentTask.history[1].role = "agent"
    /\ updates[Len(updates)].text = TextOk \o <<10>> \o TextA \o <<10>> \o TextB

\* --- C30: the message list after switchContext, stated without the store's loops
\* the number of loaded tasks that come before task i: those with an earlier
\* status.timestamp and, among equal ones, those loaded earlier
TaskRank(loaded, i) ==
    Cardinality({ j \in 1..Len(loaded) :
        \/ GetTime(loaded[j].timestamp) < GetTime(loaded[i].timestamp)
        \/ /\ GetTime(loaded[j].timestamp) = GetTime(loaded[i].timestamp)
           /\ j < i })

\* the history entries <<task, entry>> that have at least one text part
EntryPlaces(loaded) ==
    UNION { { <<t, e>> : e \in { n \in 1..Len(loaded[t].history) :
                \E p \in 1..Len(loaded[t].history[n].parts) :
                    loaded[t].history[n].parts[p].kind = "text" } } :
            t \in 1..Len(loaded) }

EntryBefore(loaded, x, y) ==
    \/ TaskRank(loaded, x[1]) < TaskRank(loaded, y[1])
    \/ x[1] = y[1] /\ x[2] < y[2]

\* the places in display order
EntriesInOrder(loaded) ==
    LET P == EntryPlaces(loaded)
    IN  [k \in 1..Cardinality(P) |->
            CHOOSE x \in P : Cardinality({y \in P : EntryBefore(loaded, y, x)}) = k - 1]

IdsWithout(taskIds, ids) ==
    { i \in 1..Len(taskIds) : \A k \in 1..Len(ids) : ids[k] # taskIds[i] }

\* C31: when switchContext has finished and getTask failed for some task of the
\* context, exactly the other tasks of the context are loaded, each once, the
\* failed ones are not, the message list holds the text entries of the loaded
\* tasks in display order (by status time, then history order), and the store's
\* error is not 'Failed to load context'.
C31_FailedTaskIsSkipped ==
    (switchCall.pc = "done" /\ switchCall.skipped # <<>>) =>
        LET loaded == switchCall.loaded
            taskIds == FindContext(switchCall.ctxId)
            E == EntriesInOrder(loaded)
        IN  /\ storeError # "Failed to load context"
            /\ Len(loaded) = Cardinality(IdsWithout(taskIds, switchCall.skipped))
            /\ \A i \in IdsWithout(taskIds, switchCall.skipped) :
                 \E t \in 1..Len(loaded) : loaded[t].id = taskIds[i]
            /\ \A t \in 1..Len(loaded) :
                 \A k \in 1..Len(switchCall.skipped) : switchCall.skipped[k] # loaded[t].id
            /\ [k \in 1..Len(messages) |-> <<messages[k].taskId, messages[k].text>>]
               = [k \in 1..Len(E) |->
                    <<loaded[E[k][1]].id,
                      Join(TextsOfParts(loaded[E[k][1]].history[E[k][2]].parts))>>]

\* the second of three tasks could not be loaded; the first and the third are
\* rendered, the third (earlier by its status time) before the first
C31_Witness ==
    /\ switchCall.pc = "done"
    /\ switchCall.skipped = << <<72>> >>
    /\ Len(switchCall.loaded) = 2
    /\ switchCall.loaded[1].id = <<71>>
    /\ switchCall.loaded[2].id = <<73>>
    /\ Len(messages) = 4
    /\ messages[1].taskId = <<73>>
    /\ messages[4].taskId = <<71>>
    /\ storeError = Null
    /\ storeTaskId = <<71>>

\* --- C32: the TaskMetadata updates of one invocation

IsTaskMetadata(u) == u.type = "taskMetadata"

\* C32: the TaskMetadata updates of an invocation all carry the task id of the
\* send answer, the context id and the referenceTaskIds of the message that went
\* out; there is one for the accepted send answer followed by one for each
\* tasks/get that answered with a task, carrying the states those answers
\* reported, in the order of the polls.
C32_TaskMetadataOfInvocation ==
    LET M == SelectSeq(updates, IsTaskMetadata)
    IN  /\ Len(M) = (IF submittedTaskId = NoId THEN 0 ELSE 1) + Len(observed)
        /\ \A k \in 1..Len(M) :
             /\ M[k].taskId = submittedTaskId
             /\ M[k].contextId = agentMessage.contextId
             /\ M[k].referenceTaskIds = agentMessage.referenceTaskIds
             /\ \A i \in 1..Len(sends) :
                  /\ sends[i].message.contextId = M[k].contextId
                  /\ sends[i].message.referenceTaskIds = M[k].referenceTaskIds
             /\ k > 1 => M[k].status = observed[k - 1]

\* a message that references an earlier task; the send answer and two polls gave
\* three TaskMetadata updates: submitted, working, completed
C32_Witness ==
    LET M == SelectSeq(updates, IsTaskMetadata)
    IN  /\ Len(M) = 3
        /\ agentMessage.referenceTaskIds # <<>>
        /\ M[1].status = "submitted"
        /\ M[2].status = "working"
        /\ M[3].status = "completed"
        /\ M[3].referenceTaskIds = agentMessage.referenceTaskIds
        /\ polls = 2

\* C33: once the payment challenge of an invocation has completed with a token,
\* every tasks/get of that invocation carries an X-PAYMENT header holding that
\* token (surrounding white space apart).
C33_PollsCarryObtainedToken ==
    (paymentSession # Null /\ lastPoll # NoPoll) =>
        /\ lastPoll.xPayment # Absent
        /\ lastPoll.xPayment = Trim(paymentSession)

\* --- C34: the two terminal updates

IsTerminalUpdate(u) == u.type = "status" /\ u.status \in {"finished", "error"}

\* C34: in the updates of an invocation at most one is Status{finished} or
\* Status{error}, it is the last update whenever there is one, and updates that
\* hold a Status{error} hold no FinalAnswer.
C34_FinishedAndErrorExclusive ==
    /\ \A i \in 1..Len(updates) : IsTerminalUpdate(updates[i]) => i = Len(updates)
    /\ (\E i \in 1..Len(updates) : updates[i].type = "status" /\ updates[i].status = "error")
         => Count(updates, "finalAnswer") = 0

\* an invocation that polled twice and then raised for a failed task: the
\* Status{error} is the last of five updates, none is a FinalAnswer or
\* Status{finished}
C34_Witness ==
    /\ pc = "thrown"
    /\ currentTask.state = "failed"
    /\ Len(updates) = 5
    /\ updates[5].status = "error"
    /\ updates[4].type = "taskMetadata"
    /\ \A i \in 1..4 : ~IsTerminalUpdate(updates[i])

\* C35: when the last poll observed completed and the consumer left the sequence
\* at the FinalAnswer or at Status{finished} without asking for a further update,
\* no payment token is held.
C35_CompletedClearsTokenWhenConsumerStops ==
    (/\ pc = "closed"
     /\ currentTask.state = "completed"
     /\ updates[Len(updates)].type \in {"finalAnswer", "status"}
     /\ err = <<>>) => paymentToken = Null

\* C36: in every reachable state hasPaymentToken() is true exactly when
\* getPaymentHeaders(), called in that state, returns an X-PAYMENT header with a
\* non-empty value.
C36_HasTokenAgreesWithHeaders ==
    HasPaymentToken(paymentToken) <=>
        (GetPaymentHeaders(paymentToken) # Absent /\ GetPaymentHeaders(paymentToken) # <<>>)

\* --- C37: a payment challenge that fails

InPayment == {"paySession", "payWait"}

\* C37: every step that ends handlePaymentRequired without a completed payment
\* (session not started, popup refused, payment-status call or body that throws,
\* payment failed, attempts used up) takes sendAgentMessage to its catch block
\* with the error 'Payment required but not completed', yielded as Status{error};
\* no other error leaves the payment challenge, and the token is not written.
C37_FailedPaymentIsNotCompleted ==
    [][(pc \in InPayment /\ pc' \notin InPayment /\ paymentSession' = Null) =>
          /\ pc' = "yError"
          /\ err' = <<"Payment required but not completed">>
          /\ updates' = Append(updates, ErrorUpdate(err'))
          /\ paymentToken' = paymentToken
          /\ sends' = sends]_vars

\* the payment-status call threw on the second attempt and the invocation ended
\* in the payment-not-completed error
C37_Witness ==
    /\ pc = "thrown"
    /\ payStatus.n = 2
    /\ payStatus.status = "thrown"
    /\ err = <<"Payment required but not completed">>
    /\ updates[Len(updates)] = ErrorUpdate(err)
    /\ Len(sends) = 1

\* C38: when switchContext(c) has finished, currentTaskId and currentTaskState
\* are both null, or they are the id and the state of the task of c that is last
\* in display order among those loaded; in particular they are null when nothing
\* of c was loaded.
C38_CurrentTaskOfSwitchedContext ==
    switchCall.pc = "done" =>
        \/ storeTaskId = Null /\ storeTaskState = NoState
        \/ \E t \in 1..Len(switchCall.loaded) :
             /\ TaskRank(switchCall.loaded, t) = Len(switchCall.loaded) - 1
             /\ storeTaskId = switchCall.loaded[t].id
             /\ storeTaskState = switchCall.loaded[t].state

\* C39: the answer to a getTask that a timer made for a task other than the
\* store's current task changes neither messages nor currentTaskState nor
\* isThinking nor the timer that is running.
C39_StalePollChangesNothing ==
    [][\A p \in inFlight :
          (p \notin inFlight' /\ timers[p.timer].taskId # storeTaskId) =>
              /\ messages' = messages
              /\ storeTaskState' = storeTaskState
              /\ isThinking' = isThinking
              /\ pollingInterval' = pollingInterval]_vars

\* C40: from the poll answer with a terminal state that stopped the polling until
\* the next sendMessage, switchContext or createNewContext, currentTaskState is
\* that terminal state and isThinking is false.
C40_TerminalStateStays ==
    pollStopped # NoState => (storeTaskState = pollStopped /\ ~isThinking)

====
